---- MODULE Spec2Model ----
(***************************************************************************)
(* Provisioning orchestrator of src/script.py (class AWSResourceManager):  *)
(* provision_resources, the idempotency probe, the creation helpers and    *)
(* rollback_resources, run against an abstract cloud gateway (EC2 and      *)
(* CloudWatch) whose calls may fail.                                       *)
(*                                                                         *)
(* One step of the model is one gateway call of the code together with     *)
(* everything the code does up to its next gateway call (appends to the    *)
(* manifest, loop bookkeeping, exception handling).                        *)
(***************************************************************************)
EXTENDS Integers, Sequences, FiniteSets, TLC

\* ---------------------------------------------------------------- bounds
MaxInstances == 2      \* instance declarations in a specification
MaxVolumes == 1        \* volume declarations per instance
MaxRuns == 2           \* provision_resources calls on one manager object
MaxFaults == 2         \* gateway calls that fail in one behaviour
MaxLines == 4          \* lines of a console output

\* The manager objects.  The program is single-threaded: one manager runs.
Managers == {1}

\* ------------------------------------------------------- program constants
\* instance states the probe's describe_instances filter lets through
LiveStates == {"running", "pending", "stopped"}

NoError == [type |-> "None", op |-> "none", origin |-> "none"]

\* alarm_name = f"idle-shutdown-{instance_name}-{instance_id}"
AlarmName(instance_name, instance_id) == <<"idle-shutdown", instance_name, instance_id>>

\* self.created_resources = {"instances": [], "volumes": [], "alarms": []}
EmptyResources == [instances |-> <<>>, volumes |-> <<>>, alarms |-> <<>>]

\* ------------------------------------------------------------------ state
VARIABLES
    spec,           \* the loaded specification: sequence of instance declarations
    mgr,            \* per manager object: fields, locals and position
    ec2_instances,  \* gateway: set of [id, name, state]
    ec2_volumes,    \* gateway: set of [id, state, instance]
    cw_alarms,      \* gateway: set of existing alarm names
    faults          \* number of gateway failures injected so far

vars == <<spec, mgr, ec2_instances, ec2_volumes, cw_alarms, faults>>

\* ------------------------------------------------------------ small helpers
RECURSIVE SeqToSet(_)
SeqToSet(s) == IF s = <<>> THEN {} ELSE {Head(s)} \cup SeqToSet(Tail(s))

RECURSIVE SetToSeq(_)
\* ascending order: the gateway lists instances in id order
SetToSeq(S) ==
    IF S = {} THEN <<>>
    ELSE LET x == CHOOSE y \in S : \A z \in S : y <= z
         IN <<x>> \o SetToSeq(S \ {x})

\* instance declarations: name (the idempotency key), the number of declared
\* volumes (0: the declaration has no "volumes" key) and whether an
\* idle_shutdown policy is declared.  Names are unique: declaration i is
\* named i.
Declarations(i) ==
    [name : {i}, volumes : 0..MaxVolumes, idle_shutdown : BOOLEAN]

\* the specifications the model is run on: 1..MaxInstances declarations, all
\* of one shape (the same number of volumes, all with or all without an
\* idle_shutdown policy)
Specifications ==
    UNION { { s \in [1..n -> UNION {Declarations(i) : i \in 1..n}] :
                \A i \in 1..n : /\ s[i].name = i
                                 /\ s[i].volumes = s[1].volumes
                                 /\ s[i].idle_shutdown = s[1].idle_shutdown } :
            n \in 1..MaxInstances }


\* ------------------------------------------------------- the manager object
\* AWSResourceManager.__init__: the manifest is created once, with the object
InitManager ==
    [ pc |-> "idle",
      runs |-> 0,
      created_resources |-> EmptyResources,
      existing |-> <<>>,
      provisioned |-> EmptyResources,
      i |-> 0,                      \* index of the instance declaration in work
      j |-> 0,                      \* index of the volume declaration in work
      instance_id |-> 0,
      created_volume_ids |-> <<>>,
      rb |-> 0,                     \* index in the rollback loop in work
      exc |-> NoError,              \* the exception provision_resources caught
      outcome |-> "none",           \* "returned" or "raised" once a call is over
      error |-> NoError,            \* the exception the caller received
      connection_info |-> <<>>,     \* ids in the returned connection_info
      attempts |-> 0,               \* queries made by the waiter in work
      exhausted |-> 0,              \* waiters of this call that ran out of budget
      \* locals of delete_resources
      instances_to_delete |-> <<>>,
      volumes_to_delete |-> <<>>,
      alarms_to_delete |-> <<>>,
      existing_alarms |-> <<>>,
      \* history of the current call
      calls |-> <<>>,               \* gateway calls issued, in order
      made |-> EmptyResources,      \* resources this call created
      rollback_calls |-> 0,         \* invocations of rollback_resources
      rollback_failures |-> 0,      \* gateway calls that failed in rollback
      manifest_at_start |-> EmptyResources,
      manifest_at_rollback |-> EmptyResources ]

Init ==
    /\ spec \in Specifications
    \* live instances that carry a declared name before the program starts
    /\ ec2_instances \in
         { { [id |-> 0 - n, name |-> n, state |-> "running"] : n \in P } :
             P \in SUBSET (1..Len(spec)) }
    /\ ec2_volumes = {}
    \* an alarm of the derived name of the first instance may already exist
    /\ cw_alarms \in SUBSET {AlarmName(1, 1)}
    /\ faults = 0
    /\ mgr = [m \in Managers |-> InitManager]

\* ------------------------------------------------------------- the gateway
\* a gateway call succeeds
Ok == faults' = faults
\* a gateway call fails (ClientError, or WaiterError of a waiter)
Fails == faults < MaxFaults /\ faults' = faults + 1

NewInstanceId == Cardinality({r \in ec2_instances : r.id > 0}) + 1
NewVolumeId == Cardinality(ec2_volumes) + 1

Matches(name) == {r \in ec2_instances : r.name = name /\ r.state \in LiveStates}

SetInstanceState(ids, st) ==
    {IF r.id \in ids THEN [r EXCEPT !.state = st] ELSE r : r \in ec2_instances}

SetVolumeState(id, st) ==
    {IF r.id = id
     THEN [r EXCEPT !.state = st,
                    !.instance = IF st = "in-use" THEN @ ELSE 0]
     ELSE r : r \in ec2_volumes}

AttachTo(id, instance_id) ==
    {IF r.id = id THEN [r EXCEPT !.state = "in-use", !.instance = instance_id]
     ELSE r : r \in ec2_volumes}

VolumeState(id) ==
    IF \E r \in ec2_volumes : r.id = id
    THEN (CHOOSE r \in ec2_volumes : r.id = id).state
    ELSE "deleted"

Call(s, op, arg) == [s EXCEPT !.calls = Append(@, [op |-> op, arg |-> arg])]

ClientError(op, origin) == [type |-> "ClientError", op |-> op, origin |-> origin]
WaiterError(op, origin) == [type |-> "WaiterError", op |-> op, origin |-> origin]

Set(m, s) == mgr' = [mgr EXCEPT ![m] = s]

\* a handler that empties the manifest once the rollback has returned
Reraise_ClearManifest(s) ==
    [s EXCEPT !.pc = "done", !.outcome = "raised", !.error = s.exc,
              !.created_resources = EmptyResources]

\* --------------------------------------------------- rollback_resources
\* the exception handler of provision_resources has run rollback_resources to
\* its end: the bare raise re-raises the exception it caught
Reraise(s) == [s EXCEPT !.pc = "done", !.outcome = "raised", !.error = s.exc]

\* an exception leaves rollback_resources (no except clause matched it): it
\* replaces the exception in flight and leaves provision_resources
Escape(s, err) == [s EXCEPT !.pc = "done", !.outcome = "raised", !.error = err]

\* rollback_resources without its terminate step
RbInstances_NoTerminate(s) == Reraise(s)

\* if self.created_resources["instances"]: terminate_instances(...)
RbInstances(s) ==
    IF s.created_resources.instances # <<>>
    THEN [s EXCEPT !.pc = "rb_terminate"]
    ELSE Reraise(s)

\* a rollback that takes up no volume
RbVolumes_None(s, v) == RbInstances(s)

\* for volume_id in self.created_resources["volumes"]:
RbVolumes(s, v) ==
    IF v <= Len(s.created_resources.volumes)
    THEN [s EXCEPT !.pc = "rb_describe_volume", !.rb = v]
    ELSE RbInstances(s)

\* rollback_resources going from the alarms straight to the instances
RbAlarms_SkipVolumes(s, a) ==
    IF a <= Len(s.created_resources.alarms)
    THEN [s EXCEPT !.pc = "rb_delete_alarm", !.rb = a]
    ELSE RbInstances(s)

\* for alarm_name in self.created_resources["alarms"]:
RbAlarms(s, a) ==
    IF a <= Len(s.created_resources.alarms)
    THEN [s EXCEPT !.pc = "rb_delete_alarm", !.rb = a]
    ELSE RbVolumes(s, 1)

\* open(script_path) in _prepare_user_data finds no file
FileNotFoundError ==
    [type |-> "FileNotFoundError", op |-> "prepare_user_data", origin |-> "provision"]

\* a handler that goes straight to the terminate call of the rollback
Handler_Terminate(s, err) ==
    [s EXCEPT !.exc = err, !.rollback_calls = @ + 1,
              !.manifest_at_rollback = s.created_resources,
              !.pc = "rb_terminate"]

\* provision_resources: except Exception as e: ... self.rollback_resources()
Handler(s, err) ==
    RbAlarms([s EXCEPT !.exc = err,
                       !.rollback_calls = @ + 1,
                       !.manifest_at_rollback = s.created_resources], 1)

\* ------------------------------------------------- provision_resources
\* the loop over spec["instances"] moves on; after the last declaration the
\* connection information is fetched
NextInstance(s) ==
    IF s.i < Len(spec)
    THEN [s EXCEPT !.i = @ + 1, !.j = 0, !.pc = "run_instances"]
    ELSE [s EXCEPT !.pc = "connection_info"]

\* a loop body that never calls _create_idle_shutdown_alarm
AlarmStage_NoAlarm(s) == NextInstance(s)

\* _create_idle_shutdown_alarm: returns None without an idle_shutdown policy
AlarmStage(s) ==
    IF spec[s.i].idle_shutdown
    THEN [s EXCEPT !.pc = "describe_alarms"]
    ELSE NextInstance(s)

\* created_volume_ids kept from one instance to the next
VolumeStage_NoReset(s) ==
    IF spec[s.i].volumes = 0
    THEN AlarmStage(s)
    ELSE [s EXCEPT !.pc = "describe_az"]

\* _create_and_attach_volumes: returns [] without a "volumes" key
VolumeStage(s) ==
    IF spec[s.i].volumes = 0
    THEN AlarmStage(s)
    ELSE [s EXCEPT !.pc = "describe_az", !.created_volume_ids = <<>>]

\* provision_resources is called (again) on the manager object
Start(m) ==
    LET s == mgr[m] IN
    /\ s.pc \in {"idle", "done"}
    /\ s.runs < MaxRuns
    /\ Set(m, [s EXCEPT !.pc = "probe", !.runs = @ + 1,
                        !.existing = <<>>, !.i = 1, !.j = 0,
                        !.instance_id = 0, !.created_volume_ids = <<>>,
                        !.rb = 0, !.exc = NoError,
                        !.outcome = "none", !.error = NoError,
                        !.connection_info = <<>>,
                        !.calls = <<>>, !.made = EmptyResources,
                        !.rollback_calls = 0, !.rollback_failures = 0,
                        !.manifest_at_start = s.created_resources,
                        !.manifest_at_rollback = EmptyResources,
                        !.exhausted = 0])
    /\ UNCHANGED <<spec, ec2_instances, ec2_volumes, cw_alarms, faults>>

\* the probe has queried every declared name: the idempotency gate
Gate(s) ==
    IF s.i < Len(spec)
    THEN [s EXCEPT !.i = @ + 1]
    ELSE IF s.existing # <<>>
         THEN [s EXCEPT !.pc = "existing_info"]
         ELSE [s EXCEPT !.pc = "run_instances", !.i = 1,
                        !.provisioned = EmptyResources]

\* a probe that gives up at the first failed query
Probe_AbortOnFailure(m) ==
    LET s == mgr[m]
        name == spec[s.i].name
        c == Call(s, "describe_instances", name)
        found == SetToSeq({r.id : r \in Matches(name)})
        entries == [x \in 1..Len(found) |->
                      CHOOSE r \in ec2_instances : r.id = found[x]]
    IN
    /\ s.pc = "probe"
    /\ \/ /\ Ok
          /\ Set(m, Gate([c EXCEPT !.existing = @ \o entries]))
       \/ /\ Fails
          /\ Set(m, Gate([c EXCEPT !.i = Len(spec)]))
    /\ UNCHANGED <<spec, ec2_instances, ec2_volumes, cw_alarms>>

\* _get_existing_resources: one describe_instances query per declared name
Probe(m) ==
    LET s == mgr[m]
        name == spec[s.i].name
        c == Call(s, "describe_instances", name)
        found == SetToSeq({r.id : r \in Matches(name)})
        entries == [x \in 1..Len(found) |->
                      CHOOSE r \in ec2_instances : r.id = found[x]]
    IN
    /\ s.pc = "probe"
    /\ \/ /\ Ok
          /\ Set(m, Gate([c EXCEPT !.existing = @ \o entries]))
       \/ /\ Fails     \* except ClientError: logged, no match for this name
          /\ Set(m, Gate(c))
    /\ UNCHANGED <<spec, ec2_instances, ec2_volumes, cw_alarms>>

\* the gate is closed: get_instance_connection_info(existing["instances"]) and
\* the construction of the result, which reads existing["alarms"]
ExistingInfo(m) ==
    LET s == mgr[m]
        c == Call(s, "describe_instances", s.existing)
    IN
    /\ s.pc = "existing_info"
    /\ \/ /\ Ok        \* the result dictionary raises KeyError('alarms')
          /\ Set(m, Escape(c, [type |-> "KeyError", op |-> "existing_alarms",
                               origin |-> "provision"]))
       \/ /\ Fails     \* get_instance_connection_info re-raises
          /\ Set(m, Escape(c, ClientError("describe_instances", "provision")))
    /\ UNCHANGED <<spec, ec2_instances, ec2_volumes, cw_alarms>>


\* a create step that looks for a live instance of the name once more
RunInstances_IfNoMatch(m) ==
    LET s == mgr[m]
        name == spec[s.i].name
        id == NewInstanceId
        c == Call(s, "run_instances", name)
    IN
    /\ s.pc = "run_instances"
    /\ Matches(name) = {}
    /\ \/ /\ Ok
          /\ ec2_instances' = ec2_instances \cup
                {[id |-> id, name |-> name, state |-> "pending"]}
          /\ Set(m, [c EXCEPT !.instance_id = id,
                              !.created_resources.instances = Append(@, id),
                              !.made.instances = Append(@, id),
                              !.pc = "wait_running"])
       \/ /\ Fails
          /\ Set(m, Handler(c, ClientError("run_instances", "provision")))
          /\ UNCHANGED ec2_instances
    /\ UNCHANGED <<spec, ec2_volumes, cw_alarms>>

\* _create_ec2_instance: run_instances, then the append to the manifest
RunInstances(m) ==
    LET s == mgr[m]
        name == spec[s.i].name
        id == NewInstanceId
        c == Call(s, "run_instances", name)
    IN
    /\ s.pc = "run_instances"
    /\ \/ /\ Ok
          /\ ec2_instances' = ec2_instances \cup
                {[id |-> id, name |-> name, state |-> "pending"]}
          /\ Set(m, [c EXCEPT !.instance_id = id,
                              !.created_resources.instances = Append(@, id),
                              !.made.instances = Append(@, id),
                              !.pc = "wait_running"])
       \/ /\ Fails
          /\ Set(m, Handler(c, ClientError("run_instances", "provision")))
          /\ UNCHANGED ec2_instances
       \/ /\ Fails     \* _prepare_user_data cannot read the script file:
                       \* the error is raised before run_instances is called
          /\ Set(m, Handler(s, FileNotFoundError))
          /\ UNCHANGED ec2_instances
    /\ UNCHANGED <<spec, ec2_volumes, cw_alarms>>

\* _create_ec2_instance: the instance_running waiter, then the return to
\* provision_resources, which records the id in its result
WaitRunning(m) ==
    LET s == mgr[m]
        c == Call(s, "wait_instance_running", s.instance_id)
    IN
    /\ s.pc = "wait_running"
    /\ \/ /\ Ok
          /\ ec2_instances' = SetInstanceState({s.instance_id}, "running")
          /\ Set(m, VolumeStage(
                 [c EXCEPT !.provisioned.instances = Append(@, s.instance_id)]))
       \/ /\ Fails
          /\ Set(m, Handler(c, WaiterError("wait_instance_running", "provision")))
          /\ UNCHANGED ec2_instances
    /\ UNCHANGED <<spec, ec2_volumes, cw_alarms>>

\* _create_and_attach_volumes: describe_instances for the availability zone
DescribeAz(m) ==
    LET s == mgr[m]
        c == Call(s, "describe_instances", s.instance_id)
    IN
    /\ s.pc = "describe_az"
    /\ \/ /\ Ok
          /\ Set(m, [c EXCEPT !.j = 1, !.pc = "create_volume"])
       \/ /\ Fails
          /\ Set(m, Handler(c, ClientError("describe_instances", "provision")))
    /\ UNCHANGED <<spec, ec2_instances, ec2_volumes, cw_alarms>>

\* _create_and_attach_volumes: create_volume, then the append to the manifest
CreateVolume(m) ==
    LET s == mgr[m]
        id == NewVolumeId
        c == Call(s, "create_volume", s.instance_id)
    IN
    /\ s.pc = "create_volume"
    /\ \/ /\ Ok
          /\ ec2_volumes' = ec2_volumes \cup
                {[id |-> id, state |-> "creating", instance |-> 0]}
          /\ Set(m, [c EXCEPT !.created_resources.volumes = Append(@, id),
                              !.created_volume_ids = Append(@, id),
                              !.made.volumes = Append(@, id),
                              !.pc = "wait_available"])
       \/ /\ Fails
          /\ Set(m, Handler(c, ClientError("create_volume", "provision")))
          /\ UNCHANGED ec2_volumes
    /\ UNCHANGED <<spec, ec2_instances, cw_alarms>>

\* the volume in work: the last one created
CurrentVolume(s) == s.created_volume_ids[Len(s.created_volume_ids)]

\* _create_and_attach_volumes: the volume_available waiter
WaitAvailable(m) ==
    LET s == mgr[m]
        c == Call(s, "wait_volume_available", CurrentVolume(s))
    IN
    /\ s.pc = "wait_available"
    /\ \/ /\ Ok
          /\ ec2_volumes' = SetVolumeState(CurrentVolume(s), "available")
          /\ Set(m, [c EXCEPT !.pc = "attach_volume"])
       \/ /\ Fails
          /\ Set(m, Handler(c, WaiterError("wait_volume_available", "provision")))
          /\ UNCHANGED ec2_volumes
    /\ UNCHANGED <<spec, ec2_instances, cw_alarms>>

\* _create_and_attach_volumes: attach_volume; after the last declared volume
\* the ids are returned and provision_resources extends its result with them
AttachVolume(m) ==
    LET s == mgr[m]
        c == Call(s, "attach_volume", CurrentVolume(s))
    IN
    /\ s.pc = "attach_volume"
    /\ \/ /\ Ok
          /\ ec2_volumes' = AttachTo(CurrentVolume(s), s.instance_id)
          /\ Set(m, IF s.j < spec[s.i].volumes
                    THEN [c EXCEPT !.j = @ + 1, !.pc = "create_volume"]
                    ELSE AlarmStage([c EXCEPT !.provisioned.volumes =
                                                 @ \o s.created_volume_ids]))
       \/ /\ Fails
          /\ Set(m, Handler(c, ClientError("attach_volume", "provision")))
          /\ UNCHANGED ec2_volumes
    /\ UNCHANGED <<spec, ec2_instances, cw_alarms>>

\* _create_idle_shutdown_alarm: describe_alarms, the idempotency check
DescribeAlarms(m) ==
    LET s == mgr[m]
        alarm_name == AlarmName(spec[s.i].name, s.instance_id)
        c == Call(s, "describe_alarms", alarm_name)
    IN
    /\ s.pc = "describe_alarms"
    /\ \/ /\ Ok
          /\ Set(m, IF alarm_name \in cw_alarms
                    THEN \* already exists: the name is returned, and
                         \* provision_resources records it in its result
                         NextInstance([c EXCEPT !.provisioned.alarms =
                                                   Append(@, alarm_name)])
                    ELSE [c EXCEPT !.pc = "put_metric_alarm"])
       \/ /\ Fails     \* except ClientError: pass
          /\ Set(m, [c EXCEPT !.pc = "put_metric_alarm"])
    /\ UNCHANGED <<spec, ec2_instances, ec2_volumes, cw_alarms>>

\* _create_idle_shutdown_alarm: put_metric_alarm, then the append to the
\* manifest
PutMetricAlarm(m) ==
    LET s == mgr[m]
        alarm_name == AlarmName(spec[s.i].name, s.instance_id)
        c == Call(s, "put_metric_alarm", alarm_name)
    IN
    /\ s.pc = "put_metric_alarm"
    /\ \/ /\ Ok
          /\ cw_alarms' = cw_alarms \cup {alarm_name}
          /\ Set(m, NextInstance(
                 [c EXCEPT !.created_resources.alarms = Append(@, alarm_name),
                           !.provisioned.alarms = Append(@, alarm_name),
                           !.made.alarms = IF alarm_name \in cw_alarms THEN @
                                           ELSE Append(@, alarm_name)]))
       \/ /\ Fails
          /\ Set(m, Handler(c, ClientError("put_metric_alarm", "provision")))
          /\ UNCHANGED cw_alarms
    /\ UNCHANGED <<spec, ec2_instances, ec2_volumes>>

\* provision_resources: get_instance_connection_info(provisioned["instances"])
\* and the return of the result
ConnectionInfo(m) ==
    LET s == mgr[m]
        c == Call(s, "describe_instances", s.provisioned.instances)
    IN
    /\ s.pc = "connection_info"
    /\ \/ /\ Ok
          /\ Set(m, [c EXCEPT !.connection_info = s.provisioned.instances,
                              !.pc = "done", !.outcome = "returned"])
       \/ /\ Fails
          /\ Set(m, Handler(c, ClientError("describe_instances", "provision")))
    /\ UNCHANGED <<spec, ec2_instances, ec2_volumes, cw_alarms>>

\* ------------------------------------------- rollback_resources, the steps
\* a gateway call of the rollback has failed
RbFailed(s) == [s EXCEPT !.rollback_failures = @ + 1]

\* delete_alarms for one alarm of the manifest
RbDeleteAlarm(m) ==
    LET s == mgr[m]
        alarm_name == s.created_resources.alarms[s.rb]
        c == Call(s, "delete_alarms", alarm_name)
    IN
    /\ s.pc = "rb_delete_alarm"
    /\ \/ /\ Ok
          /\ cw_alarms' = cw_alarms \ {alarm_name}
          /\ Set(m, RbAlarms(c, s.rb + 1))
       \/ /\ Fails     \* except ClientError: warning
          /\ Set(m, RbAlarms(RbFailed(c), s.rb + 1))
          /\ UNCHANGED cw_alarms
    /\ UNCHANGED <<spec, ec2_instances, ec2_volumes>>

\* describe_volumes for one volume of the manifest
RbDescribeVolume(m) ==
    LET s == mgr[m]
        volume_id == s.created_resources.volumes[s.rb]
        c == Call(s, "describe_volumes", volume_id)
    IN
    /\ s.pc = "rb_describe_volume"
    /\ \/ /\ VolumeState(volume_id) # "deleted"
          /\ Ok
          /\ Set(m, IF VolumeState(volume_id) = "in-use"
                    THEN [c EXCEPT !.pc = "rb_detach_volume"]
                    ELSE [c EXCEPT !.pc = "rb_delete_volume"])
       \/ /\ VolumeState(volume_id) # "deleted"
          /\ Fails     \* except ClientError: error logged, next volume
          /\ Set(m, RbVolumes(RbFailed(c), s.rb + 1))
       \/ /\ VolumeState(volume_id) = "deleted"   \* no such volume: ClientError
          /\ UNCHANGED faults
          /\ Set(m, RbVolumes(RbFailed(c), s.rb + 1))
    /\ UNCHANGED <<spec, ec2_instances, ec2_volumes, cw_alarms>>

\* detach_volume for a volume in use
RbDetachVolume(m) ==
    LET s == mgr[m]
        volume_id == s.created_resources.volumes[s.rb]
        c == Call(s, "detach_volume", volume_id)
    IN
    /\ s.pc = "rb_detach_volume"
    /\ \/ /\ Ok
          /\ ec2_volumes' = SetVolumeState(volume_id, "detaching")
          /\ Set(m, [c EXCEPT !.pc = "rb_wait_detached"])
       \/ /\ Fails
          /\ Set(m, RbVolumes(RbFailed(c), s.rb + 1))
          /\ UNCHANGED ec2_volumes
    /\ UNCHANGED <<spec, ec2_instances, cw_alarms>>

\* the volume_available waiter after the detachment.  The waiter raises
\* WaiterError, which is no ClientError: no except clause of
\* rollback_resources catches it
RbWaitDetached(m) ==
    LET s == mgr[m]
        volume_id == s.created_resources.volumes[s.rb]
        c == Call(s, "wait_volume_available", volume_id)
    IN
    /\ s.pc = "rb_wait_detached"
    /\ \/ /\ Ok
          /\ ec2_volumes' = SetVolumeState(volume_id, "available")
          /\ Set(m, [c EXCEPT !.pc = "rb_delete_volume"])
       \/ /\ Fails
          /\ Set(m, Escape(RbFailed(c),
                           WaiterError("wait_volume_available", "rollback")))
          /\ UNCHANGED ec2_volumes
    /\ UNCHANGED <<spec, ec2_instances, cw_alarms>>

\* delete_volume
RbDeleteVolume(m) ==
    LET s == mgr[m]
        volume_id == s.created_resources.volumes[s.rb]
        c == Call(s, "delete_volume", volume_id)
    IN
    /\ s.pc = "rb_delete_volume"
    /\ \/ /\ Ok
          /\ ec2_volumes' = SetVolumeState(volume_id, "deleted")
          /\ Set(m, RbVolumes(c, s.rb + 1))
       \/ /\ Fails
          /\ Set(m, RbVolumes(RbFailed(c), s.rb + 1))
          /\ UNCHANGED ec2_volumes
    /\ UNCHANGED <<spec, ec2_instances, cw_alarms>>

\* terminate_instances for all instances of the manifest, without a wait;
\* rollback_resources returns and the handler re-raises
RbTerminate(m) ==
    LET s == mgr[m]
        ids == s.created_resources.instances
        c == Call(s, "terminate_instances", ids)
    IN
    /\ s.pc = "rb_terminate"
    /\ \/ /\ Ok
          /\ ec2_instances' = SetInstanceState(SeqToSet(ids), "shutting-down")
          /\ Set(m, Reraise(c))
       \/ /\ Fails
          /\ Set(m, Reraise(RbFailed(c)))
          /\ UNCHANGED ec2_instances
    /\ UNCHANGED <<spec, ec2_volumes, cw_alarms>>

\* ------------------------------------------------------------ specification
Step(m) ==
    \/ Start(m)
    \/ Probe(m)
    \/ ExistingInfo(m)
    \/ RunInstances(m)
    \/ WaitRunning(m)
    \/ DescribeAz(m)
    \/ CreateVolume(m)
    \/ WaitAvailable(m)
    \/ AttachVolume(m)
    \/ DescribeAlarms(m)
    \/ PutMetricAlarm(m)
    \/ ConnectionInfo(m)
    \/ RbDeleteAlarm(m)
    \/ RbDescribeVolume(m)
    \/ RbDetachVolume(m)
    \/ RbWaitDetached(m)
    \/ RbDeleteVolume(m)
    \/ RbTerminate(m)

Next == \E m \in Managers : Step(m)

Spec == Init /\ [][Next]_vars


\* ------------------------------------------------- the waiters, poll by poll
\* WaiterConfig={"Delay": 5, "MaxAttempts": 60}: the waiter queries the
\* resource, returns when it is in the awaited state and otherwise sleeps and
\* queries again; the query that uses up the budget raises WaiterError
MaxAttempts == 60

\* a poll counter that starts over instead of running out
NextAttempt_Wrap(a) == (a + 1) % MaxAttempts

\* the number of queries made once one more has been made
NextAttempt(a) == a + 1

\* the waiter sleeps and will query again
Sleep(s) == [s EXCEPT !.attempts = NextAttempt(@)]

\* the waiter is over: it returned, or it raised
WaiterDone(s) == [s EXCEPT !.attempts = 0]

\* the waiter has used up its budget with this query
Exhausted(s) == [s EXCEPT !.attempts = 0, !.exhausted = @ + 1]

\* the instance_running waiter of _create_ec2_instance
PollRunning(m) ==
    LET s == mgr[m]
        c == Call(s, "wait_instance_running", s.instance_id)
    IN
    /\ s.pc = "wait_running"
    /\ \/ /\ Ok        \* the instance is running
          /\ ec2_instances' = SetInstanceState({s.instance_id}, "running")
          /\ Set(m, VolumeStage(WaiterDone(
                 [c EXCEPT !.provisioned.instances = Append(@, s.instance_id)])))
       \/ /\ NextAttempt(s.attempts) < MaxAttempts      \* still pending
          /\ Set(m, Sleep(s))
          /\ UNCHANGED <<ec2_instances, faults>>
       \/ /\ NextAttempt(s.attempts) >= MaxAttempts     \* budget used up
          /\ Set(m, Handler(Exhausted(c),
                            WaiterError("wait_instance_running", "provision")))
          /\ UNCHANGED <<ec2_instances, faults>>
       \/ /\ Fails     \* the instance entered a failure state
          /\ Set(m, Handler(WaiterDone(c),
                            WaiterError("wait_instance_running", "provision")))
          /\ UNCHANGED ec2_instances
    /\ UNCHANGED <<spec, ec2_volumes, cw_alarms>>

\* the volume_available waiter of _create_and_attach_volumes
PollAvailable(m) ==
    LET s == mgr[m]
        c == Call(s, "wait_volume_available", CurrentVolume(s))
    IN
    /\ s.pc = "wait_available"
    /\ \/ /\ Ok
          /\ ec2_volumes' = SetVolumeState(CurrentVolume(s), "available")
          /\ Set(m, WaiterDone([c EXCEPT !.pc = "attach_volume"]))
       \/ /\ NextAttempt(s.attempts) < MaxAttempts
          /\ Set(m, Sleep(s))
          /\ UNCHANGED <<ec2_volumes, faults>>
       \/ /\ NextAttempt(s.attempts) >= MaxAttempts
          /\ Set(m, Handler(Exhausted(c),
                            WaiterError("wait_volume_available", "provision")))
          /\ UNCHANGED <<ec2_volumes, faults>>
       \/ /\ Fails
          /\ Set(m, Handler(WaiterDone(c),
                            WaiterError("wait_volume_available", "provision")))
          /\ UNCHANGED ec2_volumes
    /\ UNCHANGED <<spec, ec2_instances, cw_alarms>>

\* the volume_available waiter of rollback_resources, after the detachment;
\* its WaiterError leaves rollback_resources
RbPollDetached(m) ==
    LET s == mgr[m]
        volume_id == s.created_resources.volumes[s.rb]
        c == Call(s, "wait_volume_available", volume_id)
    IN
    /\ s.pc = "rb_wait_detached"
    /\ \/ /\ Ok
          /\ ec2_volumes' = SetVolumeState(volume_id, "available")
          /\ Set(m, WaiterDone([c EXCEPT !.pc = "rb_delete_volume"]))
       \/ /\ NextAttempt(s.attempts) < MaxAttempts
          /\ Set(m, Sleep(s))
          /\ UNCHANGED <<ec2_volumes, faults>>
       \/ /\ NextAttempt(s.attempts) >= MaxAttempts
          /\ Set(m, Escape(RbFailed(Exhausted(c)),
                           WaiterError("wait_volume_available", "rollback")))
          /\ UNCHANGED <<ec2_volumes, faults>>
       \/ /\ Fails
          /\ Set(m, Escape(RbFailed(WaiterDone(c)),
                           WaiterError("wait_volume_available", "rollback")))
          /\ UNCHANGED ec2_volumes
    /\ UNCHANGED <<spec, ec2_instances, cw_alarms>>

\* main, the create action: one provision_resources call on a manager that
\* was just constructed
StartFresh(m) == mgr[m].pc = "idle" /\ Start(m)

\* provision_resources with its waiters taken poll by poll
StepPolling(m) ==
    \/ StartFresh(m)
    \/ Probe(m)
    \/ ExistingInfo(m)
    \/ RunInstances(m)
    \/ PollRunning(m)
    \/ DescribeAz(m)
    \/ CreateVolume(m)
    \/ PollAvailable(m)
    \/ AttachVolume(m)
    \/ DescribeAlarms(m)
    \/ PutMetricAlarm(m)
    \/ ConnectionInfo(m)
    \/ RbDeleteAlarm(m)
    \/ RbDescribeVolume(m)
    \/ RbDetachVolume(m)
    \/ RbPollDetached(m)
    \/ RbDeleteVolume(m)
    \/ RbTerminate(m)

NextPolling == \E m \in Managers : StepPolling(m)

\* besides at most one gateway call that fails, what goes wrong is that a
\* resource does not reach the awaited state within the budget of its waiter
InitPolling ==
    /\ spec \in Specifications
    /\ ec2_instances \in
         { { [id |-> 0 - n, name |-> n, state |-> "running"] : n \in P } :
             P \in SUBSET (1..Len(spec)) }
    /\ ec2_volumes = {}
    /\ cw_alarms \in SUBSET {AlarmName(1, 1)}
    /\ faults = MaxFaults - 1
    /\ mgr = [m \in Managers |-> InitManager]

\* the program is single-threaded and runs its next statement; the gateway
\* answers every call and every query of a waiter
SpecPolling == InitPolling /\ [][NextPolling]_vars /\ WF_vars(NextPolling)

\* ------------------------------------------- two concurrent provisioning runs
\* two processes run the program's create action on the same specification
\* at the same time, each with its own manager object and manifest; the
\* gateway is empty at the start and no gateway call fails
ConcurrentManagers == {1, 2}

InitConcurrent ==
    /\ spec \in Specifications
    /\ ec2_instances = {}
    /\ ec2_volumes = {}
    /\ cw_alarms = {}
    /\ faults = MaxFaults
    /\ mgr = [m \in ConcurrentManagers |-> InitManager]

\* the steps of a process: one provisioning call, none of whose gateway
\* calls fails
StepConcurrent(m) ==
    \/ StartFresh(m)
    \/ Probe(m)
    \/ ExistingInfo(m)
    \/ RunInstances(m)
    \/ WaitRunning(m)
    \/ DescribeAz(m)
    \/ CreateVolume(m)
    \/ WaitAvailable(m)
    \/ AttachVolume(m)
    \/ DescribeAlarms(m)
    \/ PutMetricAlarm(m)
    \/ ConnectionInfo(m)

NextConcurrent == \E m \in ConcurrentManagers : StepConcurrent(m)

SpecConcurrent == InitConcurrent /\ [][NextConcurrent]_vars


\* --------------------------------------------------------- delete_resources
\* the number of volumes the first n declarations declare
RECURSIVE DeclaredVolumes(_)
DeclaredVolumes(n) == IF n = 0 THEN 0 ELSE spec[n].volumes + DeclaredVolumes(n - 1)

\* the program's delete action runs on a gateway that holds, for each
\* declared name, no instance, a running one or a terminated one; a running
\* instance has its declared volumes attached and, if it declares an
\* idle_shutdown policy, its alarm may be in place.  The manager is a new
\* one (empty manifest) or the one whose provisioning call created the
\* instances the gateway holds
InstanceChoices == {"none", "running", "terminated"}

VolumesOfDeclaration(k) ==
    {DeclaredVolumes(k - 1) + j : j \in 1..spec[k].volumes}

\* the manifest of the call that created the instances of the declarations
\* in K, their volumes and their alarms
ManifestOf(K) ==
    LET ks == SetToSeq(K)
        Vols[n \in 0..Len(ks)] ==
            IF n = 0 THEN <<>>
            ELSE Vols[n - 1] \o SetToSeq(VolumesOfDeclaration(ks[n]))
        Alarms[n \in 0..Len(ks)] ==
            IF n = 0 THEN <<>>
            ELSE Alarms[n - 1] \o
                 (IF spec[ks[n]].idle_shutdown
                  THEN <<AlarmName(spec[ks[n]].name, ks[n])>> ELSE <<>>)
    IN [instances |-> ks, volumes |-> Vols[Len(ks)], alarms |-> Alarms[Len(ks)]]

InitDelete ==
    /\ spec \in Specifications
    /\ \E st \in [1..Len(spec) -> InstanceChoices] :
         /\ ec2_instances =
              { [id |-> k, name |-> spec[k].name, state |-> st[k]] :
                  k \in {x \in 1..Len(spec) : st[x] # "none"} }
         /\ ec2_volumes =
              UNION { { [id |-> v, state |-> "in-use", instance |-> k] :
                          v \in VolumesOfDeclaration(k) } :
                      k \in {x \in 1..Len(spec) : st[x] = "running"} }
         /\ cw_alarms \in
              SUBSET { AlarmName(spec[k].name, k) :
                         k \in {x \in 1..Len(spec) :
                                  st[x] = "running" /\ spec[x].idle_shutdown} }
    /\ faults = 0
    /\ \E manifest \in {EmptyResources,
                         ManifestOf({r.id : r \in ec2_instances})} :
         mgr = [m \in Managers |->
                  [InitManager EXCEPT !.created_resources = manifest]]

\* a delete_resources that ends by deleting the volumes it collected
DelReturn_DeleteVolumes(s) ==
    [s EXCEPT !.pc = "done", !.outcome = "returned",
              !.calls = @ \o [k \in 1..Len(s.volumes_to_delete) |->
                                [op |-> "delete_volume",
                                 arg |-> s.volumes_to_delete[k]]]]

\* delete_resources is over: "Resource deletion completed"; the collected
\* volumes are not touched
DelReturn(s) == [s EXCEPT !.pc = "done", !.outcome = "returned"]

\* a delete_resources that takes its targets from the creation manifest
DelInstances_FromManifest(s) ==
    IF s.created_resources.instances # <<>>
    THEN [s EXCEPT !.pc = "del_terminate",
                   !.instances_to_delete = s.created_resources.instances]
    ELSE DelReturn(s)

\* if instances_to_delete:
DelInstances(s) ==
    IF s.instances_to_delete # <<>>
    THEN [s EXCEPT !.pc = "del_terminate"]
    ELSE DelReturn(s)

\* a delete_resources without its alarm step
DelAlarms_Skip(s) == DelInstances(s)

\* if alarms_to_delete:
DelAlarms(s) ==
    IF s.alarms_to_delete # <<>>
    THEN [s EXCEPT !.pc = "del_describe_alarms"]
    ELSE DelInstances(s)

\* for instance_spec in spec["instances"]: the loop moves on
DelNextName(s) ==
    IF s.i < Len(spec)
    THEN [s EXCEPT !.i = @ + 1]
    ELSE DelAlarms(s)

\* the volumes in the block device mappings of an instance
AttachedVolumes(id) ==
    SetToSeq({r.id : r \in {x \in ec2_volumes :
                               x.instance = id /\ x.state = "in-use"}})

RECURSIVE VolumesOf(_)
VolumesOf(ids) ==
    IF ids = <<>> THEN <<>>
    ELSE AttachedVolumes(Head(ids)) \o VolumesOf(Tail(ids))

\* delete_resources is called on the manager object
DeleteStart(m) ==
    LET s == mgr[m] IN
    /\ s.pc \in {"idle", "done"}
    /\ s.runs < MaxRuns
    /\ Set(m, [s EXCEPT !.pc = "del_find", !.runs = @ + 1, !.i = 1,
                        !.instances_to_delete = <<>>,
                        !.volumes_to_delete = <<>>,
                        !.alarms_to_delete = <<>>,
                        !.existing_alarms = <<>>,
                        !.outcome = "none", !.error = NoError,
                        !.calls = <<>>])
    /\ UNCHANGED <<spec, ec2_instances, ec2_volumes, cw_alarms, faults>>

\* the describe_instances query for one declared name and the collection of
\* instance ids, attached volumes and derived alarm names
DeleteFind(m) ==
    LET s == mgr[m]
        name == spec[s.i].name
        c == Call(s, "describe_instances", name)
        found == SetToSeq({r.id : r \in Matches(name)})
    IN
    /\ s.pc = "del_find"
    /\ \/ /\ Ok
          /\ Set(m, DelNextName(
                 [c EXCEPT !.instances_to_delete = @ \o found,
                           !.volumes_to_delete = @ \o VolumesOf(found),
                           !.alarms_to_delete = @ \o
                               [x \in 1..Len(found) |-> AlarmName(name, found[x])]]))
       \/ /\ Fails     \* except ClientError: error logged, next name
          /\ Set(m, DelNextName(c))
    /\ UNCHANGED <<spec, ec2_instances, ec2_volumes, cw_alarms>>

\* describe_alarms: which of the derived alarms exist
DeleteDescribeAlarms(m) ==
    LET s == mgr[m]
        c == Call(s, "describe_alarms", s.alarms_to_delete)
        present == SelectSeq(s.alarms_to_delete, LAMBDA a : a \in cw_alarms)
    IN
    /\ s.pc = "del_describe_alarms"
    /\ \/ /\ Ok
          /\ Set(m, IF present # <<>>
                    THEN [c EXCEPT !.existing_alarms = present,
                                   !.pc = "del_delete_alarms"]
                    ELSE DelInstances(c))
       \/ /\ Fails     \* except ClientError: try to delete them all
          /\ Set(m, [c EXCEPT !.existing_alarms = s.alarms_to_delete,
                              !.pc = "del_delete_alarms"])
    /\ UNCHANGED <<spec, ec2_instances, ec2_volumes, cw_alarms>>

\* delete_alarms for the alarms found
DeleteAlarms(m) ==
    LET s == mgr[m]
        c == Call(s, "delete_alarms", s.existing_alarms)
    IN
    /\ s.pc = "del_delete_alarms"
    /\ \/ /\ Ok
          /\ cw_alarms' = cw_alarms \ SeqToSet(s.existing_alarms)
          /\ Set(m, DelInstances(c))
       \/ /\ Fails     \* except ClientError: warning
          /\ Set(m, DelInstances(c))
          /\ UNCHANGED cw_alarms
    /\ UNCHANGED <<spec, ec2_instances, ec2_volumes>>

\* terminate_instances for all instances found
DeleteTerminate(m) ==
    LET s == mgr[m]
        c == Call(s, "terminate_instances", s.instances_to_delete)
    IN
    /\ s.pc = "del_terminate"
    /\ \/ /\ Ok
          /\ ec2_instances' =
                SetInstanceState(SeqToSet(s.instances_to_delete), "shutting-down")
          /\ Set(m, [c EXCEPT !.pc = "del_wait_terminated"])
       \/ /\ Fails     \* except ClientError: error logged
          /\ Set(m, DelReturn(c))
          /\ UNCHANGED ec2_instances
    /\ UNCHANGED <<spec, ec2_volumes, cw_alarms>>

\* the instance_terminated waiter.  With the instances the gateway removes
\* the attached volumes that carry the delete-on-termination attribute and
\* detaches the others.  The waiter's WaiterError is no ClientError: it
\* leaves delete_resources
DeleteWaitTerminated(m) ==
    LET s == mgr[m]
        ids == SeqToSet(s.instances_to_delete)
        c == Call(s, "wait_instance_terminated", s.instances_to_delete)
    IN
    /\ s.pc = "del_wait_terminated"
    /\ \/ /\ Ok
          /\ ec2_instances' = SetInstanceState(ids, "terminated")
          /\ \E delete_on_termination \in BOOLEAN :
                ec2_volumes' =
                    { IF r.instance \in ids /\ r.state = "in-use"
                      THEN [r EXCEPT !.state = IF delete_on_termination
                                               THEN "deleted" ELSE "available"]
                      ELSE r : r \in ec2_volumes }
          /\ Set(m, DelReturn(c))
       \/ /\ Fails
          /\ Set(m, [c EXCEPT !.pc = "done", !.outcome = "raised",
                              !.error = WaiterError("wait_instance_terminated",
                                                    "delete")])
          /\ UNCHANGED <<ec2_instances, ec2_volumes>>
    /\ UNCHANGED <<spec, cw_alarms>>

StepDelete(m) ==
    \/ DeleteStart(m)
    \/ DeleteFind(m)
    \/ DeleteDescribeAlarms(m)
    \/ DeleteAlarms(m)
    \/ DeleteTerminate(m)
    \/ DeleteWaitTerminated(m)

NextDelete == \E m \in Managers : StepDelete(m)

SpecDelete == InitDelete /\ [][NextDelete]_vars


\* --------------------------------- _create_idle_shutdown_alarm, the request
\* the length of a CloudWatch period: Period=300 seconds, "// 5" minutes
PeriodSeconds == 300
PeriodMinutes == 5

\* the evaluation_minutes values the request is computed for
MaxMinutes == 60

\* a period count rounded to the nearest period
EvaluationPeriods_Rounded(evaluation_minutes) ==
    (2 * evaluation_minutes + PeriodMinutes) \div (2 * PeriodMinutes)

\* EvaluationPeriods=evaluation_minutes // 5
EvaluationPeriods(evaluation_minutes) == evaluation_minutes \div PeriodMinutes

\* one declaration with an idle_shutdown policy that passed validation; its
\* instance is running and has no alarm yet
InitAlarm ==
    /\ spec \in { <<[name |-> 1, volumes |-> 0,
                     idle_shutdown |-> [evaluation_minutes |-> n]]>> :
                  n \in 1..MaxMinutes }
    /\ ec2_instances = {[id |-> 1, name |-> 1, state |-> "running"]}
    /\ ec2_volumes = {}
    /\ cw_alarms = {}
    /\ faults = 0
    /\ mgr = [m \in Managers |-> InitManager]

\* put_metric_alarm as the gateway receives it
PutMetricAlarmRequest(m) ==
    LET idle_config == spec[1].idle_shutdown
        alarm_name == AlarmName(spec[1].name, 1)
    IN
    /\ cw_alarms = {}
    /\ cw_alarms' =
          {[AlarmName |-> alarm_name,
            Period |-> PeriodSeconds,
            EvaluationPeriods |-> EvaluationPeriods(idle_config.evaluation_minutes)]}
    /\ Set(m, [mgr[m] EXCEPT !.created_resources.alarms = Append(@, alarm_name)])
    /\ UNCHANGED <<spec, ec2_instances, ec2_volumes, faults>>

NextAlarm == \E m \in Managers : PutMetricAlarmRequest(m)

SpecAlarm == InitAlarm /\ [][NextAlarm]_vars


\* ------------------------------------------------------ _prepare_user_data
\* the files open() finds on the machine that runs the program
Files == [p \in {"setup.sh"} |-> "yum -y update"]

\* one element of user_data_parts: the text it starts with and the mount
\* points or the script text formatted into it
Part(text, args) == [text |-> text, args |-> args]

HeaderMarker == "#!/bin/bash"
MountMarker == "# === AUTOMATIC VOLUME MOUNTING ==="
UserMarker == "# === USER CUSTOM SCRIPT ==="
VerificationMarker == "# === MOUNT VERIFICATION ==="
BannerMarker == "echo \"User Data Script Execution Completed Successfully\""

\* instance_spec.get("volumes", [])
GetVolumes(instance_spec) ==
    IF "volumes" \in DOMAIN instance_spec THEN instance_spec.volumes ELSE <<>>

\* [v for v in volumes if "mount_point" in v]
VolumesWithMounts(instance_spec) ==
    SelectSeq(GetVolumes(instance_spec), LAMBDA v : "mount_point" \in DOMAIN v)


\* _generate_volume_mount_script: empty without a volume to mount, else one
\* text with the commands of every volume that has a mount point
MountScript(instance_spec) ==
    LET volumes_with_mounts == VolumesWithMounts(instance_spec) IN
    IF volumes_with_mounts = <<>>
    THEN <<>>
    ELSE << Part(MountMarker,
                 [k \in 1..Len(volumes_with_mounts) |->
                     volumes_with_mounts[k].mount_point.str]) >>

\* instance_spec.get("user_data", {}): the mapping (validation has
\* established that a declared user_data is one)
GetUserData(instance_spec) ==
    IF "user_data" \in DOMAIN instance_spec
    THEN instance_spec.user_data.dict
    ELSE <<>>

\* open(script_path) raises FileNotFoundError
ScriptMissing(instance_spec) ==
    LET user_data_config == GetUserData(instance_spec) IN
    /\ "script_path" \in DOMAIN user_data_config
    /\ user_data_config.script_path \notin DOMAIN Files

\* the user's section: the marker, then the content of the file or the
\* inline text
UserSection(instance_spec) ==
    LET user_data_config == GetUserData(instance_spec) IN
    IF DOMAIN user_data_config = {}
    THEN <<>>
    ELSE << Part(UserMarker, <<>>) >> \o
         (IF "script_path" \in DOMAIN user_data_config
          THEN << Part("script", <<Files[user_data_config.script_path]>>) >>
          ELSE IF "inline_script" \in DOMAIN user_data_config
          THEN << Part("script", <<user_data_config.inline_script>>) >>
          ELSE <<>>)

\* the verification section: the marker, one check per mounted volume, the
\* closing message
VerificationSection(instance_spec) ==
    LET volumes_with_mounts == VolumesWithMounts(instance_spec) IN
    IF volumes_with_mounts = <<>>
    THEN <<>>
    ELSE << Part(VerificationMarker, <<>>) >> \o
         [k \in 1..Len(volumes_with_mounts) |->
             Part("if mountpoint -q", <<volumes_with_mounts[k].mount_point.str>>)] \o
         << Part("echo \"All mount points verified successfully\"", <<>>) >>

\* the mount section: the mount script and its closing message
MountSection(instance_spec) ==
    LET mount_script == MountScript(instance_spec) IN
    IF mount_script # <<>>
    THEN mount_script \o << Part("echo \"Volume mounting completed successfully\"", <<>>) >>
    ELSE <<>>

\* an assembly that puts the user's section before the mount section
UserDataParts_UserFirst(instance_spec) ==
    << Part(HeaderMarker, <<>>) >> \o
    UserSection(instance_spec) \o
    MountSection(instance_spec) \o
    VerificationSection(instance_spec) \o
    << Part(BannerMarker, <<>>) >>

\* user_data_parts as _prepare_user_data joins them
UserDataParts(instance_spec) ==
    << Part(HeaderMarker, <<>>) >> \o
    MountSection(instance_spec) \o
    UserSection(instance_spec) \o
    VerificationSection(instance_spec) \o
    << Part(BannerMarker, <<>>) >>


\* the instance declarations the script is assembled for
InstanceSpecs ==
    LET base == [name |-> "web"]
        \* the bootstrap descriptors that pass validation
        user_data_choices ==
            { [dict |-> [script_path |-> "setup.sh"]],
              [dict |-> [script_path |-> "missing.sh"]],
              [dict |-> [inline_script |-> "echo hello"]],
              [dict |-> [inline_script |-> "df -h"]] }
        \* the volume declarations, with and without a mount point
        volume_choices ==
            { [size |-> [int |-> 10]],
              [size |-> [int |-> 10], mount_point |-> [str |-> <<"/", "d">>]],
              [size |-> [int |-> 10], mount_point |-> [str |-> <<"/", "l">>]] }
        volume_lists ==
            UNION { [1..n -> volume_choices] : n \in 0..(MaxVolumes + 1) }
    IN
    { base @@ u @@ v :
        u \in {<<>>} \cup {[user_data |-> c] : c \in user_data_choices},
        v \in {<<>>} \cup {[volumes |-> l] : l \in volume_lists} }

InitUserData ==
    /\ spec \in { <<d>> : d \in InstanceSpecs }
    /\ ec2_instances = {}
    /\ ec2_volumes = {}
    /\ cw_alarms = {}
    /\ faults = 0
    /\ mgr = [m \in Managers |-> InitManager]

\* _create_ec2_instance up to run_instances: the script is assembled and
\* becomes the UserData of the launch request, or FileNotFoundError is raised
\* before anything is requested
PrepareUserData(m) ==
    LET s == mgr[m]
        instance_spec == spec[1]
    IN
    /\ s.pc = "idle"
    /\ IF ScriptMissing(instance_spec)
       THEN /\ Set(m, Escape(s, [type |-> "FileNotFoundError", op |-> "open",
                                 origin |-> "prepare_user_data"]))
            /\ UNCHANGED ec2_instances
       ELSE /\ ec2_instances' =
                  {[id |-> 1, name |-> instance_spec.name, state |-> "pending",
                    UserData |-> UserDataParts(instance_spec)]}
            /\ Set(m, [Call(s, "run_instances", instance_spec.name)
                          EXCEPT !.pc = "done", !.outcome = "returned"])
    /\ UNCHANGED <<spec, ec2_volumes, cw_alarms, faults>>

NextUserData == \E m \in Managers : PrepareUserData(m)

SpecUserData == InitUserData /\ [][NextUserData]_vars


\* ------------------------------------------------ _validate_specification
\* A value of the YAML document is a record whose only field names its Python
\* type: [int |-> 5], [bool |-> TRUE], [float |-> 505] (tenths: 50.5),
\* [nan |-> TRUE] (the float .nan), [str |-> ...], [dict |-> ...].  A mapping
\* whose keys the code reads is a record with one field per key that is
\* present.  The text of a path, a role or of mount options is a sequence of
\* characters

\* isinstance(v, int): bool is a subclass of int
IsInt(v) == "int" \in DOMAIN v \/ "bool" \in DOMAIN v

\* isinstance(v, (int, float))
IsIntOrFloat(v) == IsInt(v) \/ "float" \in DOMAIN v \/ "nan" \in DOMAIN v

\* isinstance(v, str)
IsStr(v) == "str" \in DOMAIN v

\* isinstance(v, dict)
IsDict(v) == "dict" \in DOMAIN v

\* v < n for a number v and an integer n; every comparison with nan is False
Less(v, n) ==
    IF "int" \in DOMAIN v THEN v.int < n
    ELSE IF "bool" \in DOMAIN v THEN (IF v.bool THEN 1 ELSE 0) < n
    ELSE IF "float" \in DOMAIN v THEN v.float < 10 * n
    ELSE FALSE

\* v > n for a number v and an integer n
Greater(v, n) ==
    IF "int" \in DOMAIN v THEN v.int > n
    ELSE IF "bool" \in DOMAIN v THEN (IF v.bool THEN 1 ELSE 0) > n
    ELSE IF "float" \in DOMAIN v THEN v.float > 10 * n
    ELSE FALSE


\* str.strip()
RECURSIVE Strip(_)
Strip(text) ==
    IF text = <<>> THEN <<>>
    ELSE IF Head(text) \in {" ", "\t", "\n"} THEN Strip(Tail(text))
    ELSE IF text[Len(text)] \in {" ", "\t", "\n"}
         THEN Strip(SubSeq(text, 1, Len(text) - 1))
    ELSE text

\* str.startswith(prefix)
StartsWith(text, prefix) ==
    /\ Len(text) >= Len(prefix)
    /\ SubSeq(text, 1, Len(prefix)) = prefix

\* not isinstance(v, str) or not v.strip()
BlankOrNotStr(v) == ~IsStr(v) \/ Strip(v.str) = <<>>

\* the result of a validation that raised nothing
Valid == [type |-> "None", message |-> "", field |-> "",
          instance |-> 0 - 1, volume |-> 0 - 1]

\* raise ValueError(...): the message, the field it names and the indices
\* formatted into it (-1: none)
ValueError(message, field, instance_idx, volume_idx) ==
    [type |-> "ValueError", message |-> message, field |-> field,
     instance |-> instance_idx, volume |-> volume_idx]

\* the checks run one after the other: the first that raises ends them
Then(raised, rest) == IF raised # Valid THEN raised ELSE rest

\* a list of required fields without the image id
RequiredInstanceFields_NoImage == <<"name", "instance_type">>

\* required_instance_fields = ["name", "instance_type", "ami_id"]
RequiredInstanceFields == <<"name", "instance_type", "ami_id">>

\* required_idle_fields = ["cpu_threshold", "evaluation_minutes"]
RequiredIdleFields == <<"cpu_threshold", "evaluation_minutes">>

ValidActions == {"stop", "terminate"}
ValidTypes == {"gp2", "gp3", "io1", "io2", "st1", "sc1"}
SupportedFilesystems == {"ext4", "xfs", "btrfs"}
DangerousPaths ==
    { <<"/">>, <<"/", "b", "o", "o", "t">>, <<"/", "e", "t", "c">>,
      <<"/", "u", "s", "r">>, <<"/", "b", "i", "n">>,
      <<"/", "s", "b", "i", "n">>, <<"/", "l", "i", "b">>,
      <<"/", "l", "i", "b", "6", "4">> }
DevPrefix == <<"/", "d", "e", "v", "/">>

\* v not in <list of strings>
NotIn(v, strings) == ~IsStr(v) \/ v.str \notin strings

\* for field in required: if field not in mapping: raise
\* the fields of a list that a mapping lacks, in the order of the list
Missing(required, mapping) ==
    SelectSeq(required, LAMBDA field : field \notin DOMAIN mapping)

\* the check of the required fields of an instance
ValidateRequired(instance, i) ==
    LET missing == Missing(RequiredInstanceFields, instance) IN
    IF missing # <<>>
    THEN ValueError("Missing required field in instance", missing[1], i, 0 - 1)
    ELSE Valid

\* a check of user_data that lets both sources through
ValidateUserData_AllowBoth(instance, i) ==
    IF "user_data" \notin DOMAIN instance THEN Valid
    ELSE
    LET user_data == instance.user_data IN
    IF ~IsDict(user_data)
    THEN ValueError("user_data must be an object", "user_data", i, 0 - 1)
    ELSE IF /\ "script_path" \notin DOMAIN user_data.dict
            /\ "inline_script" \notin DOMAIN user_data.dict
    THEN ValueError("user_data must contain either script_path or inline_script",
                    "user_data", i, 0 - 1)
    ELSE Valid

\* the check of user_data
ValidateUserData(instance, i) ==
    IF "user_data" \notin DOMAIN instance THEN Valid
    ELSE
    LET user_data == instance.user_data IN
    IF ~IsDict(user_data)
    THEN ValueError("user_data must be an object", "user_data", i, 0 - 1)
    ELSE
    LET has_script_path == "script_path" \in DOMAIN user_data.dict
        has_inline_script == "inline_script" \in DOMAIN user_data.dict
    IN
    IF has_script_path /\ has_inline_script
    THEN ValueError("Cannot specify both script_path and inline_script",
                    "user_data", i, 0 - 1)
    ELSE IF ~has_script_path /\ ~has_inline_script
    THEN ValueError("user_data must contain either script_path or inline_script",
                    "user_data", i, 0 - 1)
    ELSE Valid

\* the check of idle_shutdown
ValidateIdleShutdown(instance, i) ==
    IF "idle_shutdown" \notin DOMAIN instance THEN Valid
    ELSE
    LET idle_config == instance.idle_shutdown IN
    IF ~IsDict(idle_config)
    THEN ValueError("idle_shutdown must be an object", "idle_shutdown", i, 0 - 1)
    ELSE
    LET missing == Missing(RequiredIdleFields, idle_config.dict) IN
    IF missing # <<>>
    THEN ValueError("Missing required field in idle_shutdown config",
                    missing[1], i, 0 - 1)
    ELSE
    LET threshold == idle_config.dict.cpu_threshold
        eval_mins == idle_config.dict.evaluation_minutes
    IN
    IF ~IsIntOrFloat(threshold) \/ Less(threshold, 0) \/ Greater(threshold, 100)
    THEN ValueError("cpu_threshold must be a number between 0 and 100",
                    "cpu_threshold", i, 0 - 1)
    ELSE IF ~IsInt(eval_mins) \/ ~Greater(eval_mins, 0)
    THEN ValueError("evaluation_minutes must be a positive integer",
                    "evaluation_minutes", i, 0 - 1)
    ELSE IF /\ "action" \in DOMAIN idle_config.dict
            /\ NotIn(idle_config.dict.action, ValidActions)
    THEN ValueError("idle_shutdown action must be one of stop, terminate",
                    "action", i, 0 - 1)
    ELSE Valid

\* the check of iam_role
ValidateIamRole(instance, i) ==
    IF "iam_role" \in DOMAIN instance /\ BlankOrNotStr(instance.iam_role)
    THEN ValueError("iam_role must be a non-empty string", "iam_role", i, 0 - 1)
    ELSE Valid

\* the check of a mount point
ValidateMountPoint(volume_spec, instance_idx, volume_idx) ==
    IF "mount_point" \notin DOMAIN volume_spec THEN Valid
    ELSE
    LET mount_point == volume_spec.mount_point IN
    IF BlankOrNotStr(mount_point)
    THEN ValueError("Mount point must be a non-empty string", "mount_point",
                    instance_idx, volume_idx)
    ELSE IF ~StartsWith(mount_point.str, <<"/">>)
    THEN ValueError("Mount point must be an absolute path", "mount_point",
                    instance_idx, volume_idx)
    ELSE IF mount_point.str \in DangerousPaths
    THEN ValueError("Mount point is a reserved system directory", "mount_point",
                    instance_idx, volume_idx)
    ELSE Valid

\* _validate_volume_spec
ValidateVolumeSpec(volume_spec, instance_idx, volume_idx) ==
    IF "size" \notin DOMAIN volume_spec
    THEN ValueError("Volume specification missing required field", "size",
                    instance_idx, volume_idx)
    ELSE IF ~IsInt(volume_spec.size) \/ ~Greater(volume_spec.size, 0)
    THEN ValueError("Volume size must be a positive integer", "size",
                    instance_idx, volume_idx)
    ELSE IF "type" \in DOMAIN volume_spec /\ NotIn(volume_spec.type, ValidTypes)
    THEN ValueError("Invalid volume type", "type", instance_idx, volume_idx)
    ELSE
    Then(ValidateMountPoint(volume_spec, instance_idx, volume_idx),
    IF /\ "filesystem" \in DOMAIN volume_spec
       /\ NotIn(volume_spec.filesystem, SupportedFilesystems)
    THEN ValueError("Unsupported filesystem", "filesystem",
                    instance_idx, volume_idx)
    ELSE IF /\ "mount_options" \in DOMAIN volume_spec
            /\ BlankOrNotStr(volume_spec.mount_options)
    THEN ValueError("Mount options must be a non-empty string", "mount_options",
                    instance_idx, volume_idx)
    ELSE IF /\ "device" \in DOMAIN volume_spec
            /\ (~IsStr(volume_spec.device) \/
                ~StartsWith(volume_spec.device.str, DevPrefix))
    THEN ValueError("Device must be a valid device path", "device",
                    instance_idx, volume_idx)
    ELSE Valid)

\* for j, volume in enumerate(instance["volumes"]): from the j-th on (1-based
\* position j reports index j - 1)
RECURSIVE ValidateVolumes(_, _, _)
ValidateVolumes(instance, i, j) ==
    IF "volumes" \notin DOMAIN instance \/ j > Len(instance.volumes)
    THEN Valid
    ELSE Then(ValidateVolumeSpec(instance.volumes[j], i, j - 1),
              ValidateVolumes(instance, i, j + 1))

\* a loop body that checks the volumes before the other sections
ValidateInstance_VolumesFirst(instance, i) ==
    Then(ValidateVolumes(instance, i, 1),
    Then(ValidateRequired(instance, i),
    Then(ValidateUserData(instance, i),
    Then(ValidateIdleShutdown(instance, i),
         ValidateIamRole(instance, i)))))

\* the body of the loop over spec["instances"]
ValidateInstance(instance, i) ==
    Then(ValidateRequired(instance, i),
    Then(ValidateUserData(instance, i),
    Then(ValidateIdleShutdown(instance, i),
    Then(ValidateIamRole(instance, i),
         ValidateVolumes(instance, i, 1)))))

\* for i, instance in enumerate(spec["instances"]): from the k-th on
RECURSIVE ValidateInstances(_, _)
ValidateInstances(instances, k) ==
    IF k > Len(instances)
    THEN Valid
    ELSE Then(ValidateInstance(instances[k], k - 1),
              ValidateInstances(instances, k + 1))

\* _validate_specification: the exception it raises, Valid if it returns
ValidateSpecification(document) ==
    IF "instances" \notin DOMAIN document
    THEN ValueError("Missing required field in specification", "instances",
                    0 - 1, 0 - 1)
    ELSE IF "profile" \in DOMAIN document /\ ~IsStr(document.profile)
    THEN ValueError("Profile field must be a string", "profile", 0 - 1, 0 - 1)
    ELSE ValidateInstances(document.instances, 1)


\* ----------------------------------------- the documents validation is run on
\* the mapping restricted to some of its keys
Restrict(mapping, keys) == [k \in keys \cap DOMAIN mapping |-> mapping[k]]

\* a key left out of a mapping
Absent == [absent |-> TRUE]

\* the mapping without the keys that are left out
Present(mapping) ==
    Restrict(mapping, {k \in DOMAIN mapping : mapping[k] # Absent})

TextData == [str |-> <<"/", "d">>]

\* the k-th instance declaration with all required fields
FullInstance(k) ==
    [name |-> k, instance_type |-> [str |-> "t3.micro"],
     ami_id |-> [str |-> "ami-12345678"]]


IdleShutdownValues ==
    LET thresholds ==
            { Absent, [int |-> 0 - 1], [int |-> 0], [int |-> 50],
              [int |-> 100], [int |-> 101], [float |-> 505],
              [float |-> 1001], [float |-> 0 - 1], [nan |-> TRUE],
              [bool |-> TRUE], [str |-> "50"] }
        minutes ==
            { Absent, [int |-> 0], [int |-> 0 - 5], [int |-> 1], [int |-> 10],
              [float |-> 105], [bool |-> TRUE], [bool |-> FALSE],
              [str |-> "10"] }
        actions ==
            { Absent, [str |-> "stop"], [str |-> "terminate"],
              [str |-> "reboot"], [int |-> 1] }
    IN
    { [str |-> "stop"] } \cup
    { [dict |-> Present([cpu_threshold |-> threshold,
                         evaluation_minutes |-> eval_mins,
                         action |-> action])] :
        threshold \in thresholds, eval_mins \in minutes, action \in actions }


VolumeValues ==
    LET sizes ==
            { Absent, [int |-> 10], [int |-> 0], [int |-> 0 - 1],
              [float |-> 105], [bool |-> TRUE], [str |-> "10"] }
        types == { Absent, [str |-> "gp3"], [str |-> "standard"], [int |-> 3] }
        mount_points ==
            { Absent, TextData, [str |-> <<"/">>],
              [str |-> <<"/", "e", "t", "c">>], [str |-> <<"d">>],
              [str |-> <<" ">>], [str |-> <<" ", "/", "d">>], [int |-> 1] }
        filesystems == { Absent, [str |-> "xfs"], [str |-> "ntfs"] }
        options == { Absent, [str |-> <<"r", "w">>], [str |-> <<" ">>] }
        devices ==
            { Absent, [str |-> <<"/", "d", "e", "v", "/", "s", "d", "f">>],
              [str |-> <<"/", "t", "m", "p", "/", "x">>],
              [str |-> <<"s", "d", "f">>], [int |-> 1] }
    IN
    { Present([size |-> size, type |-> type, mount_point |-> mount_point,
               filesystem |-> filesystem, mount_options |-> mount_options,
               device |-> device]) :
        size \in sizes, type \in types, mount_point \in mount_points,
        filesystem \in filesystems, mount_options \in options,
        device \in devices }

GoodVolume == [size |-> [int |-> 10], mount_point |-> TextData]
BadVolume == [size |-> [int |-> 10], mount_point |-> [str |-> <<"d">>]]

\* one instance in which a single section takes every value
OneSection ==
    { Restrict(FullInstance(1), required) :
        required \in SUBSET {"name", "instance_type", "ami_id"} } \cup
    { FullInstance(1) @@ [user_data |-> v] :
        v \in { [str |-> "setup.sh"],
                [dict |-> <<>>],
                [dict |-> [script_path |-> "setup.sh"]],
                [dict |-> [inline_script |-> "echo hello"]],
                [dict |-> [script_path |-> "setup.sh",
                           inline_script |-> "echo hello"]] } } \cup
    { FullInstance(1) @@ [idle_shutdown |-> v] : v \in IdleShutdownValues } \cup
    { FullInstance(1) @@ [iam_role |-> v] :
        v \in { [str |-> <<"r">>], [str |-> <<>>], [str |-> <<" ">>],
                [int |-> 5] } } \cup
    { FullInstance(1) @@ [volumes |-> <<v>>] : v \in VolumeValues }

\* the k-th instance with each section left out, right or wrong
SomeSections(k, volume_lists) ==
    { Restrict(FullInstance(k), required) @@
      Present([user_data |-> user_data, idle_shutdown |-> idle_shutdown,
               iam_role |-> iam_role]) @@ volumes :
        required \in { {"name", "instance_type", "ami_id"},
                       {"name", "instance_type"} },
        user_data \in {Absent, [str |-> "setup.sh"],
                       [dict |-> [inline_script |-> "echo hello"]]},
        idle_shutdown \in {Absent, [str |-> "stop"]},
        iam_role \in {Absent, [int |-> 5]},
        volumes \in {<<>>} \cup { [volumes |-> l] : l \in volume_lists } }


\* the k-th instance of a specification of several: right, or wrong in one
\* section
InstanceShapes(k) ==
    { FullInstance(k),
      Restrict(FullInstance(k), {"instance_type", "ami_id"}),
      FullInstance(k) @@ [user_data |-> [dict |-> <<>>]],
      FullInstance(k) @@ [idle_shutdown |-> [str |-> "stop"]],
      FullInstance(k) @@ [iam_role |-> [str |-> <<>>]],
      FullInstance(k) @@ [volumes |-> <<GoodVolume, BadVolume>>] }

ProfileValues == { Absent, [str |-> "dev"], [int |-> 123] }

Documents ==
    { Present([profile |-> p]) : p \in ProfileValues } \cup
    { [instances |-> <<>>] } \cup
    { [instances |-> <<d>>] :
        d \in OneSection \cup
              SomeSections(1, UNION { [1..len -> {GoodVolume, BadVolume}] :
                                        len \in 0..(MaxVolumes + 1) }) } \cup
    { Present([profile |-> p]) @@ [instances |-> l] :
        p \in ProfileValues,
        l \in UNION { { s \in [1..n -> UNION {InstanceShapes(k) : k \in 1..n}] :
                          \A k \in 1..n : s[k] \in InstanceShapes(k) } :
                      n \in 1..MaxInstances } }

InitValidate ==
    /\ spec \in Documents
    /\ ec2_instances = {}
    /\ ec2_volumes = {}
    /\ cw_alarms = {}
    /\ faults = 0
    /\ mgr = [m \in Managers |-> InitManager]

\* _validate_specification(spec) returns, or raises ValueError
ValidateCall(m) ==
    LET s == mgr[m]
        raised == ValidateSpecification(spec)
    IN
    /\ s.pc = "idle"
    /\ Set(m, IF raised = Valid
              THEN [s EXCEPT !.pc = "done", !.outcome = "returned"]
              ELSE Escape(s, raised))
    /\ UNCHANGED <<spec, ec2_instances, ec2_volumes, cw_alarms, faults>>

NextValidate == \E m \in Managers : ValidateCall(m)

SpecValidate == InitValidate /\ [][NextValidate]_vars


\* --------------------------------------------------------------------- main
\* what provision_resources and delete_resources read of a loaded
\* specification: per instance its name, the number of its volumes and
\* whether it declares an idle_shutdown policy
Declared(document) ==
    [k \in 1..Len(document.instances) |->
        [name |-> document.instances[k].name,
         volumes |-> Len(GetVolumes(document.instances[k])),
         idle_shutdown |-> "idle_shutdown" \in DOMAIN document.instances[k]]]


\* the specification files the program is started on (no profile key: the
\* credentials are the default ones or come from the command line)
MainDocuments ==
    LET \* the k-th instance: the shapes validation is run on and one with a
        \* policy and a volume
        shapes(k) ==
            InstanceShapes(k) \cup
            { FullInstance(k) @@
              [idle_shutdown |->
                   [dict |-> [cpu_threshold |-> [int |-> 50],
                              evaluation_minutes |-> [int |-> 10]]],
               volumes |-> <<GoodVolume>>] }
    IN
    { <<>> } \cup
    { [instances |-> l] :
        l \in UNION { { s \in [1..n -> UNION {shapes(k) : k \in 1..n}] :
                          \A k \in 1..n : s[k] \in shapes(k) } :
                      n \in 1..MaxInstances } }

\* the program is started with the action create or delete on a
\* specification file; an instance of the first name may be live, with or
\* without its alarm; spec = None
InitMain ==
    /\ spec = <<>>
    /\ \E live \in BOOLEAN :
         /\ ec2_instances =
              IF live THEN {[id |-> 0 - 1, name |-> 1, state |-> "running"]}
              ELSE {}
         /\ cw_alarms \in SUBSET (IF live THEN {AlarmName(1, 0 - 1)} ELSE {})
    /\ ec2_volumes = {}
    /\ faults = MaxFaults
    /\ \E action \in {"create", "delete"}, document \in MainDocuments :
         mgr = [m \in Managers |->
                  [InitManager EXCEPT !.pc = "main"] @@
                  [args |-> [action |-> action, spec |-> document]]]

\* a load_specification that queries the gateway before it validates
LoadSpecification_QueryFirst(m) ==
    LET s == mgr[m]
        document == s.args.spec
        raised == ValidateSpecification(document)
        c == Call(s, "describe_instances", 1)
    IN
    /\ s.pc = "main"
    /\ IF raised # Valid
       THEN /\ Set(m, Escape(c, raised))
            /\ UNCHANGED spec
       ELSE /\ Set(m, [c EXCEPT !.pc = "idle"])
            /\ spec' = Declared(document)
    /\ UNCHANGED <<ec2_instances, ec2_volumes, cw_alarms, faults>>

\* main up to the action: the manager is constructed and
\* manager.load_specification(args.spec) parses the file and validates it; a
\* ValueError leaves main through its handler (exit code 1), else spec is
\* the parsed document
LoadSpecification(m) ==
    LET s == mgr[m]
        document == s.args.spec
        raised == ValidateSpecification(document)
    IN
    /\ s.pc = "main"
    /\ IF raised # Valid
       THEN /\ Set(m, Escape(s, raised))
            /\ UNCHANGED spec
       ELSE /\ Set(m, [s EXCEPT !.pc = "idle"])
            /\ spec' = Declared(document)
    /\ UNCHANGED <<ec2_instances, ec2_volumes, cw_alarms, faults>>

\* if args.action == "create": manager.provision_resources(spec)
MainCreate(m) ==
    /\ mgr[m].args.action = "create"
    /\ StartFresh(m)

\* elif args.action == "delete": manager.delete_resources(spec)
MainDelete(m) ==
    /\ mgr[m].args.action = "delete"
    /\ mgr[m].pc = "idle"
    /\ DeleteStart(m)

\* the steps of one run of the program, none of whose gateway calls fails
StepMain(m) ==
    \/ LoadSpecification(m)
    \/ MainCreate(m)
    \/ Probe(m)
    \/ ExistingInfo(m)
    \/ RunInstances(m)
    \/ WaitRunning(m)
    \/ DescribeAz(m)
    \/ CreateVolume(m)
    \/ WaitAvailable(m)
    \/ AttachVolume(m)
    \/ DescribeAlarms(m)
    \/ PutMetricAlarm(m)
    \/ ConnectionInfo(m)
    \/ MainDelete(m)
    \/ DeleteFind(m)
    \/ DeleteDescribeAlarms(m)
    \/ DeleteAlarms(m)
    \/ DeleteTerminate(m)
    \/ DeleteWaitTerminated(m)

NextMain == \E m \in Managers : StepMain(m)

SpecMain == InitMain /\ [][NextMain]_vars


\* ----------------------------------------------- create_volume request
\* volume_params of _create_and_attach_volumes: Size, the declared type or
\* gp3, Iops under the test on the declared type, Encrypted when it is set
VolumeParams(volume_spec) ==
    LET Get(key, default) ==
            IF key \in DOMAIN volume_spec THEN volume_spec[key] ELSE default
        provisioned_types == {[str |-> "gp3"], [str |-> "io1"], [str |-> "io2"]}
    IN
    [Size |-> volume_spec.size, VolumeType |-> Get("type", [str |-> "gp3"])] @@
    (IF "iops" \in DOMAIN volume_spec /\ Get("type", [none |-> TRUE]) \in provisioned_types
     THEN [Iops |-> volume_spec.iops]
     ELSE <<>>) @@
    (IF Get("encrypted", [bool |-> FALSE]) = [bool |-> TRUE]
     THEN [Encrypted |-> TRUE]
     ELSE <<>>)

\* one running instance whose declaration has one volume that passed
\* validation; no volume was created yet
InitVolume ==
    /\ \E size \in {[int |-> 1], [int |-> 10], [int |-> 100]},
          type \in {Absent} \cup {[str |-> t] : t \in ValidTypes},
          iops \in {Absent, [int |-> 100], [int |-> 3000]},
          encrypted \in {Absent, [bool |-> TRUE], [bool |-> FALSE]} :
         LET volume_spec == Present([size |-> size, type |-> type,
                                     iops |-> iops, encrypted |-> encrypted])
         IN
         /\ ValidateVolumeSpec(volume_spec, 0, 0) = Valid
         /\ spec = <<[name |-> 1, volumes |-> <<volume_spec>>]>>
    /\ ec2_instances = {[id |-> 1, name |-> 1, state |-> "running"]}
    /\ ec2_volumes = {}
    /\ cw_alarms = {}
    /\ faults = 0
    /\ mgr = [m \in Managers |-> InitManager]

\* create_volume as the gateway receives it, then the append to the manifest
CreateVolumeRequest(m) ==
    /\ ec2_volumes = {}
    /\ ec2_volumes' = {VolumeParams(spec[1].volumes[1])}
    /\ Set(m, [mgr[m] EXCEPT !.created_resources.volumes = Append(@, NewVolumeId)])
    /\ UNCHANGED <<spec, ec2_instances, cw_alarms, faults>>

NextVolume == \E m \in Managers : CreateVolumeRequest(m)

SpecVolume == InitVolume /\ [][NextVolume]_vars


\* ------------------------------------------------------ get_user_data_logs
\* A text line is a sequence of words; a phrase is in a line when its words
\* are consecutive words of the line (Python's "phrase in line").
Contains(line, phrase) ==
    \E k \in 0..(Len(line) - Len(phrase)) :
        SubSeq(line, k + 1, k + Len(phrase)) = phrase

ExecutionPhrase == <<"User Data Script Execution">>
StartedPhrase == <<"User Data Script Execution", "Started">>
CompletedPhrase == <<"User Data Script Execution", "Completed">>

\* the text returned when the console output has no execution phrase
NoLogsFound == << <<"No user data execution logs found in console output.">> >>

\* for line in lines: the Started test, the append while capturing, the
\* Completed test with its break
RECURSIVE CaptureLoop(_, _, _)
CaptureLoop(lines, capturing, user_data_logs) ==
    IF lines = <<>> THEN user_data_logs
    ELSE
    LET line == Head(lines)
        now == capturing \/ Contains(line, StartedPhrase)
        logs == IF now THEN Append(user_data_logs, line) ELSE user_data_logs
    IN
    IF Contains(line, CompletedPhrase)
    THEN logs
    ELSE CaptureLoop(Tail(lines), now, logs)

\* the text get_user_data_logs returns for a console output, as the lines
\* that "\n".join puts together; lines is console_output.split("\n")
UserDataLogs(lines) ==
    IF \E k \in 1..Len(lines) : Contains(lines[k], ExecutionPhrase)
    THEN CaptureLoop(lines, FALSE, <<>>)
    ELSE NoLogsFound

\* one running instance with a console output of 1..MaxLines lines
InitLogs ==
    LET texts ==
            { <<"cloud-init">>, <<"yum -y update">>,
              <<"=====", "User Data Script Execution", "Started", "=====">>,
              <<"User Data Script Execution", "Completed", "Successfully">>,
              <<"User Data Script Execution", "Failed">>,
              <<"User Data Script Execution", "Started",
                "User Data Script Execution", "Completed">> }
    IN
    /\ spec = <<[name |-> 1, volumes |-> 0, idle_shutdown |-> FALSE]>>
    /\ \E n \in 1..MaxLines :
         \E console \in [1..n -> texts] :
            ec2_instances = {[id |-> 1, name |-> 1, state |-> "running",
                              console |-> console]}
    /\ ec2_volumes = {}
    /\ cw_alarms = {}
    /\ faults = MaxFaults - 1
    /\ mgr = [m \in Managers |-> InitManager @@ [logs |-> <<>>]]

\* get_user_data_logs(instance_id): get_console_output, then the extraction;
\* a ClientError of the gateway is logged and raised
GetUserDataLogs(m) ==
    LET s == mgr[m] IN
    /\ s.pc = "idle"
    /\ \E r \in ec2_instances :
         LET c == Call(s, "get_console_output", r.id) IN
         \/ /\ Ok
            /\ Set(m, [c EXCEPT !.pc = "done", !.outcome = "returned",
                                !.logs = UserDataLogs(r.console)])
         \/ /\ Fails
            /\ Set(m, [c EXCEPT !.pc = "done", !.outcome = "raised",
                                !.error = ClientError("get_console_output", "logs")])
    /\ UNCHANGED <<spec, ec2_instances, ec2_volumes, cw_alarms>>

NextLogs == \E m \in Managers : GetUserDataLogs(m)

SpecLogs == InitLogs /\ [][NextLogs]_vars


\* ================================================================ properties
Finished(m) == mgr[m].pc = "done"

\* the handler of provision_resources caught an exception in this call
Caught(m) == mgr[m].exc # NoError

Issued(s, op, x) ==
    \E n \in 1..Len(s.calls) : s.calls[n].op = op /\ s.calls[n].arg = x

TerminateIssuedFor(s, id) ==
    \E n \in 1..Len(s.calls) :
        /\ s.calls[n].op = "terminate_instances"
        /\ id \in SeqToSet(s.calls[n].arg)

CreateOps == {"run_instances", "create_volume", "attach_volume", "put_metric_alarm"}

\* the gateway calls of the provisioning steps of one instance
StepOps == {"run_instances", "wait_instance_running", "create_volume",
            "wait_volume_available", "attach_volume", "put_metric_alarm"}

\* C1: once a provisioning step (create instance, wait for running, create
\* volume, wait for available, attach volume, create alarm) has failed,
\* provision_resources calls rollback_resources exactly once, with the
\* manifest accumulated so far, and the caller receives the exception of the
\* failed step, never a result.
C1_RollbackThenOriginalError ==
    \A m \in Managers :
        (Finished(m) /\ Caught(m) /\ mgr[m].exc.op \in StepOps) =>
            /\ mgr[m].rollback_calls = 1
            /\ mgr[m].manifest_at_rollback = mgr[m].created_resources
            /\ mgr[m].outcome = "raised"
            /\ mgr[m].error = mgr[m].exc

\* every declared instance and volume was created by this call
AllCreated(s) ==
    /\ Len(s.made.instances) = Len(spec)
    /\ Len(s.made.volumes) = DeclaredVolumes(Len(spec))

\* every resource this call created is gone: alarm deleted, volume deleted,
\* terminate issued for the instance
AllRolledBack(s) ==
    /\ \A a \in SeqToSet(s.made.alarms) : a \notin cw_alarms
    /\ \A v \in SeqToSet(s.made.volumes) : VolumeState(v) = "deleted"
    /\ \A id \in SeqToSet(s.made.instances) : TerminateIssuedFor(s, id)

\* the alarm of every declaration with an idle_shutdown policy is in place
AlarmsInPlace(s) ==
    \A k \in 1..Len(spec) :
        spec[k].idle_shutdown =>
            AlarmName(spec[k].name, s.made.instances[k]) \in cw_alarms

C3_RollbackNeverRaises ==
    \A m \in Managers : mgr[m].error.origin # "rollback"

\* C4: when a step of the rollback has failed too, the caller still receives
\* the exception of the failed provisioning step.
C4_RollbackErrorDoesNotMask ==
    \A m \in Managers :
        (Finished(m) /\ Caught(m) /\ mgr[m].rollback_failures > 0) =>
            /\ mgr[m].error.origin = "provision"
            /\ mgr[m].error = mgr[m].exc

\* C5: whatever fails while one volume is rolled back, every volume of the
\* manifest is taken up by the rollback (its describe_volumes is issued) and
\* the terminate call for the manifest's instances is issued.
C5_VolumeFailureIsolated ==
    \A m \in Managers :
        (Finished(m) /\ mgr[m].rollback_calls = 1) =>
            /\ \A v \in SeqToSet(mgr[m].manifest_at_rollback.volumes) :
                  Issued(mgr[m], "describe_volumes", v)
            /\ mgr[m].manifest_at_rollback.instances # <<>> =>
                  Issued(mgr[m], "terminate_instances",
                         mgr[m].manifest_at_rollback.instances)

\* C6: in every call the manifest is empty at the start and holds only
\* identifiers of resources the current call created.
C6_ManifestOfCurrentRun ==
    \A m \in Managers :
        /\ mgr[m].manifest_at_start = EmptyResources
        /\ SeqToSet(mgr[m].created_resources.instances) \subseteq
              SeqToSet(mgr[m].made.instances)
        /\ SeqToSet(mgr[m].created_resources.volumes) \subseteq
              SeqToSet(mgr[m].made.volumes)
        /\ SeqToSet(mgr[m].created_resources.alarms) \subseteq
              SeqToSet(mgr[m].made.alarms)

\* the probe of the current call found a live match
GateClosed(m) == mgr[m].existing # <<>>

\* C7: when the probe found a live match, the call issues no create-instance,
\* create-volume, attach-volume or create-alarm call, does not invoke the
\* rollback, and the manifest's lists are empty.
C7_GateClosedCreatesNothing ==
    \A m \in Managers :
        GateClosed(m) =>
            /\ \A n \in 1..Len(mgr[m].calls) : mgr[m].calls[n].op \notin CreateOps
            /\ mgr[m].rollback_calls = 0
            /\ mgr[m].created_resources = EmptyResources

\* C8: when the probe found a live match, provision_resources returns (it
\* does not raise) and the result holds the existing instances with their
\* connection info.
C8_GateClosedReturnsExisting ==
    \A m \in Managers :
        (Finished(m) /\ GateClosed(m)) =>
            /\ mgr[m].outcome = "returned"
            /\ Len(mgr[m].connection_info) = Len(mgr[m].existing)

\* C9: when the wait for the running state fails, the id of the instance is
\* in the manifest handed to the rollback and the rollback issues a terminate
\* call for it.
C9_InstanceAppendedBeforeWait ==
    \A m \in Managers :
        (Finished(m) /\ mgr[m].exc.op = "wait_instance_running") =>
            /\ mgr[m].instance_id \in SeqToSet(mgr[m].manifest_at_rollback.instances)
            /\ TerminateIssuedFor(mgr[m], mgr[m].instance_id)

\* C10: when the availability wait or the attachment of a volume fails, the
\* id of the volume is in the manifest handed to the rollback and the
\* rollback takes the volume up for deletion.
C10_VolumeAppendedBeforeWait ==
    \A m \in Managers :
        (/\ Finished(m)
         /\ mgr[m].exc.origin = "provision"
         /\ mgr[m].exc.op \in {"wait_volume_available", "attach_volume"}) =>
            /\ CurrentVolume(mgr[m]) \in SeqToSet(mgr[m].manifest_at_rollback.volumes)
            /\ Issued(mgr[m], "describe_volumes", CurrentVolume(mgr[m]))

\* C11: on a freshly constructed manager (its first call), when provisioning
\* failed at a step of the k-th declared instance, the manifest handed to the
\* rollback holds exactly the resources the call created so far, those of
\* the earlier instances included, and the rollback issues terminate for
\* exactly those instance ids and no others.
C11_RollbackGetsAllCreated ==
    \A m \in Managers :
        LET s == mgr[m] IN
        (/\ Finished(m)
         /\ s.runs = 1
         /\ s.rollback_calls = 1
         /\ s.exc.op \in StepOps) =>
            /\ s.manifest_at_rollback.instances = s.made.instances
            /\ s.manifest_at_rollback.volumes = s.made.volumes
            /\ SeqToSet(s.made.alarms) \subseteq SeqToSet(s.manifest_at_rollback.alarms)
            /\ \A a \in SeqToSet(s.manifest_at_rollback.alarms) :
                  Issued(s, "put_metric_alarm", a)
            /\ \A id \in SeqToSet(s.made.instances) : TerminateIssuedFor(s, id)
            /\ \A n \in 1..Len(s.calls) :
                  s.calls[n].op = "terminate_instances" =>
                      s.calls[n].arg = s.made.instances

\* the gateway calls rollback_resources issues for a volume
RollbackVolumeOps == {"describe_volumes", "detach_volume", "delete_volume"}

\* the call at position n of the log is op(x)
IsCall(s, n, op, x) ==
    /\ n \in 1..Len(s.calls)
    /\ s.calls[n].op = op
    /\ s.calls[n].arg = x

\* C12: rollback_resources works in dependency-reverse order: every alarm
\* deletion is issued before any volume operation; every volume of the
\* manifest is taken up (described, detached if in use, waited on until
\* detached, then deleted; deleted whenever no call of the rollback failed)
\* before the terminate call; the terminate call is the last call, no wait
\* for termination follows it.
C12_RollbackOrder ==
    \A m \in Managers :
        LET s == mgr[m] IN
        \A n \in 1..Len(s.calls) :
            LET op == s.calls[n].op
                x == s.calls[n].arg
            IN
            /\ op = "delete_alarms" =>
                  \A k \in 1..n :
                      s.calls[k].op \notin RollbackVolumeOps \cup {"terminate_instances"}
            /\ op = "detach_volume" => IsCall(s, n - 1, "describe_volumes", x)
            /\ op = "delete_volume" =>
                  \/ IsCall(s, n - 1, "describe_volumes", x)
                  \/ /\ IsCall(s, n - 1, "wait_volume_available", x)
                     /\ IsCall(s, n - 2, "detach_volume", x)
            /\ op = "terminate_instances" =>
                  /\ n = Len(s.calls)
                  /\ \A a \in SeqToSet(s.manifest_at_rollback.alarms) :
                        \E k \in 1..(n - 1) : IsCall(s, k, "delete_alarms", a)
                  /\ \A v \in SeqToSet(s.manifest_at_rollback.volumes) :
                        \E k \in 1..(n - 1) : IsCall(s, k, "describe_volumes", v)
                  /\ s.rollback_failures = 0 =>
                        \A v \in SeqToSet(s.manifest_at_rollback.volumes) :
                            \E k \in 1..(n - 1) : IsCall(s, k, "delete_volume", v)
            /\ op # "wait_instance_terminated"

\* a rollback that deleted an alarm, detached and deleted a volume and
\* issued the terminate call
C12_Witness ==
    \E m \in Managers :
        LET s == mgr[m] IN
        /\ Finished(m)
        /\ \E n \in 1..Len(s.calls) : s.calls[n].op = "delete_alarms"
        /\ \E n \in 1..Len(s.calls) : s.calls[n].op = "detach_volume"
        /\ \E n \in 1..Len(s.calls) : s.calls[n].op = "delete_volume"
        /\ s.calls[Len(s.calls)].op = "terminate_instances"

\* C13: when an alarm of the derived name already exists,
\* _create_idle_shutdown_alarm issues no create-alarm call: the manager is
\* never about to issue put_metric_alarm for a name that is in place, and no
\* name is in the manifest twice.
C13_ExistingAlarmNotCreatedAgain ==
    \A m \in Managers :
        LET s == mgr[m] IN
        /\ s.pc = "put_metric_alarm" =>
              AlarmName(spec[s.i].name, s.instance_id) \notin cw_alarms
        /\ \A a, b \in 1..Len(s.created_resources.alarms) :
              s.created_resources.alarms[a] = s.created_resources.alarms[b] => a = b

\* C14: rollback_resources only reads the manifest: from the moment the
\* handler calls it until the call has finished, the manifest's instance,
\* volume and alarm lists are the ones the rollback was handed.
C14_RollbackKeepsManifest ==
    \A m \in Managers :
        mgr[m].rollback_calls = 1 =>
            mgr[m].created_resources = mgr[m].manifest_at_rollback

\* a rollback that has worked through a manifest with an instance, a volume
\* and an alarm and has returned
C14_Witness ==
    \E m \in Managers :
        /\ Finished(m)
        /\ mgr[m].rollback_calls = 1
        /\ mgr[m].error.origin = "provision"
        /\ mgr[m].rollback_failures = 0
        /\ mgr[m].manifest_at_rollback.instances # <<>>
        /\ mgr[m].manifest_at_rollback.volumes # <<>>
        /\ mgr[m].manifest_at_rollback.alarms # <<>>

\* the operations of a call log
Ops(calls) == [n \in 1..Len(calls) |-> calls[n].op]

\* the probe queries of a call, one per declared name in declaration order
ProbeCalls == [k \in 1..Len(spec) |-> [op |-> "describe_instances", arg |-> spec[k].name]]

\* the gateway calls of the loop body for declaration k, in program order:
\* its instance is made.instances[k], its volumes follow those of the
\* declarations before it in made.volumes
InstanceCalls(s, k) ==
    LET id == s.made.instances[k]
        first == DeclaredVolumes(k - 1)
        alarm_name == AlarmName(spec[k].name, id)
        VolumeCalls[j \in 0..spec[k].volumes] ==
            IF j = 0 THEN <<>>
            ELSE VolumeCalls[j - 1] \o
                 << [op |-> "create_volume", arg |-> id],
                    [op |-> "wait_volume_available", arg |-> s.made.volumes[first + j]],
                    [op |-> "attach_volume", arg |-> s.made.volumes[first + j]] >>
    IN
    << [op |-> "run_instances", arg |-> spec[k].name],
       [op |-> "wait_instance_running", arg |-> id] >>
    \o (IF spec[k].volumes > 0
        THEN <<[op |-> "describe_instances", arg |-> id]>> \o VolumeCalls[spec[k].volumes]
        ELSE <<>>)
    \o (IF spec[k].idle_shutdown
        THEN <<[op |-> "describe_alarms", arg |-> alarm_name]>>
             \o (IF Issued(s, "put_metric_alarm", alarm_name)
                 THEN <<[op |-> "put_metric_alarm", arg |-> alarm_name]>>
                 ELSE <<>>)
        ELSE <<>>)

RECURSIVE LoopCalls(_, _)
LoopCalls(s, n) == IF n = 0 THEN <<>> ELSE LoopCalls(s, n - 1) \o InstanceCalls(s, n)

\* the call log of a successful call
ExpectedCalls(s) ==
    ProbeCalls \o LoopCalls(s, Len(spec))
    \o <<[op |-> "describe_instances", arg |-> s.made.instances]>>

ProbeOver(s) ==
    \/ s.pc = "existing_info"
    \/ s.pc = "run_instances" /\ s.i = 1

\* the ids of the entries of a probe result
Ids(entries) == [x \in 1..Len(entries) |-> entries[x].id]

\* C18: a failed probe query counts as "no match" for its name and does not
\* end the probe.  Every step of the probe issues the query for the name in
\* work; a query that fails leaves the result as it is, one that succeeds
\* appends the live instances of the name; either way the probe goes on to
\* the next name, or to the gate after the last one, and raises nothing.
C18_ProbeSurvivesFailedQuery ==
    [][\A m \in Managers :
         LET s == mgr[m]
             t == mgr'[m]
             name == spec[s.i].name
         IN
         s.pc = "probe" =>
            /\ s.calls = SubSeq(ProbeCalls, 1, s.i - 1)
            /\ t.calls = SubSeq(ProbeCalls, 1, s.i)
            /\ Ids(t.existing) =
                  IF faults' > faults
                  THEN Ids(s.existing)
                  ELSE Ids(s.existing) \o SetToSeq({r.id : r \in Matches(name)})
            /\ s.i < Len(spec) => (t.pc = "probe" /\ t.i = s.i + 1)
            /\ s.i = Len(spec) => ProbeOver(t)
            /\ t.exc = NoError
            /\ t.outcome = "none"]_vars

\* the probe is over: the query for the first name failed, so its live
\* instance is not reported, and the live instance of the second name is
C18_Witness ==
    \E m \in Managers :
        LET s == mgr[m] IN
        /\ ProbeOver(s)
        /\ s.runs = 1
        /\ faults > 0
        /\ Matches(1) # {}
        /\ \A e \in SeqToSet(s.existing) : e.name # 1
        /\ \E e \in SeqToSet(s.existing) : e.name = 2

\* the names of the alarms of the declared idle_shutdown policies, in
\* declaration order
RECURSIVE DeclaredAlarms(_, _)
DeclaredAlarms(s, n) ==
    IF n = 0 THEN <<>>
    ELSE DeclaredAlarms(s, n - 1) \o
         (IF spec[n].idle_shutdown
          THEN <<AlarmName(spec[n].name, s.made.instances[n])>>
          ELSE <<>>)

C15_CreateAfterGateUnguarded ==
    \A m \in ConcurrentManagers :
        mgr[m].pc = "run_instances" => ENABLED RunInstances(m)

\* both runs passed the gate and two live instances of one declared name
\* exist, one created by the first call of each manager
C15_Witness ==
    \E a, b \in ec2_instances :
        /\ a.id # b.id
        /\ a.name = b.name
        /\ a.state \in LiveStates
        /\ b.state \in LiveStates
        /\ mgr[1].runs = 1
        /\ mgr[2].runs = 1
        /\ mgr[1].existing = <<>>
        /\ mgr[2].existing = <<>>
        /\ a.id \in SeqToSet(mgr[1].made.instances)
        /\ b.id \in SeqToSet(mgr[2].made.instances)

\* C17: every wait is bounded by its budget of MaxAttempts queries; using up
\* the budget of the instance-running or the volume-available wait of
\* provisioning is fatal for the call (the handler takes over with the
\* WaiterError); and every provision_resources call that was started
\* finishes, returning a result or raising: no call polls forever.
C17_EveryCallTerminates ==
    /\ [](\A m \in Managers : mgr[m].attempts < MaxAttempts)
    /\ [][\A m \in Managers :
            (/\ mgr'[m].exhausted > mgr[m].exhausted
             /\ mgr[m].pc \in {"wait_running", "wait_available"}) =>
                /\ mgr'[m].rollback_calls = 1
                /\ mgr'[m].exc.type = "WaiterError"]_vars
    /\ \A m \in Managers : (mgr[m].pc = "probe") ~> Finished(m)

\* a call that is over after a wait of its provisioning used up its budget
C17_Witness ==
    \E m \in Managers :
        /\ Finished(m)
        /\ mgr[m].exhausted >= 1
        /\ mgr[m].exc.type = "WaiterError"
        /\ mgr[m].outcome = "raised"

\* C20: delete_resources never issues a delete-volume or detach-volume call:
\* the volumes attached to the instances it found are collected, and that is
\* all that happens to them.
C20_DeleteLeavesVolumes ==
    \A m \in Managers :
        LET s == mgr[m] IN
        /\ \A n \in 1..Len(s.calls) :
              s.calls[n].op \notin {"delete_volume", "detach_volume"}
        /\ SeqToSet(s.volumes_to_delete) =
              {r.id : r \in {x \in ec2_volumes :
                               x.instance \in SeqToSet(s.instances_to_delete)}}

\* a delete_resources call that collected volumes, terminated the instances,
\* returned, and left a collected volume in existence
C20_Witness ==
    \E m \in Managers :
        LET s == mgr[m] IN
        /\ Finished(m)
        /\ s.outcome = "returned"
        /\ s.volumes_to_delete # <<>>
        /\ s.calls[Len(s.calls)].op = "wait_instance_terminated"
        /\ \E v \in SeqToSet(s.volumes_to_delete) : VolumeState(v) = "available"

\* the operations of the alarm step of delete_resources
DeleteAlarmOps == {"describe_alarms", "delete_alarms"}

\* the discovery queries of delete_resources issued so far
DiscoveryOver(s) == s.pc \notin {"idle", "del_find"}

\* C21: delete_resources first queries the live instances of every declared
\* name, then runs its alarm step (describe, delete) for their derived
\* alarms, then issues one terminate call for all instances found, then
\* waits for their termination; no terminate call comes before the alarm
\* step is over, and when no instance was found neither an alarm deletion
\* nor a terminate call is issued.
C21_DeleteOrder ==
    \A m \in Managers :
        LET s == mgr[m] IN
        /\ \A n \in 1..Len(s.calls) :
              LET op == s.calls[n].op IN
              /\ n <= Len(spec) => s.calls[n] = ProbeCalls[n]
              /\ n > Len(spec) => op # "describe_instances"
              /\ op \in DeleteAlarmOps =>
                    \A k \in 1..n : s.calls[k].op \notin
                        {"terminate_instances", "wait_instance_terminated"}
              /\ op = "delete_alarms" => s.calls[n - 1].op = "describe_alarms"
              /\ op = "terminate_instances" =>
                    /\ n > Len(spec)
                    /\ s.calls[n].arg = s.instances_to_delete
                    /\ \E k \in 1..(n - 1) : s.calls[k].op = "describe_alarms"
                    /\ \A k \in 1..Len(s.calls) :
                          s.calls[k].op = "terminate_instances" => k = n
              /\ op = "wait_instance_terminated" =>
                    /\ s.calls[n - 1].op = "terminate_instances"
                    /\ s.calls[n].arg = s.instances_to_delete
                    /\ n = Len(s.calls)
        /\ (DiscoveryOver(s) /\ s.instances_to_delete = <<>>) =>
              /\ Len(s.calls) = Len(spec)
              /\ s.pc = "done"
              /\ s.outcome = "returned"

\* a delete_resources call that found instances, deleted alarms, terminated
\* and waited
C21_Witness ==
    \E m \in Managers :
        LET s == mgr[m] IN
        /\ Finished(m)
        /\ s.outcome = "returned"
        /\ Len(s.instances_to_delete) >= 2
        /\ \E n \in 1..Len(s.calls) : s.calls[n].op = "delete_alarms"
        /\ s.calls[Len(s.calls)].op = "wait_instance_terminated"

\* C22: delete_resources takes its targets from the live queries by declared
\* name only.  A query step appends the live instances of the name in work
\* (nothing when the query fails); no other step changes the target list;
\* the terminate call is issued for exactly that list; and no step changes
\* the creation manifest, whatever it holds.
C22_DeleteTargetsFromQueries ==
    [][\A m \in Managers :
         LET s == mgr[m]
             t == mgr'[m]
         IN
         /\ t.created_resources = s.created_resources
         /\ s.pc = "del_find" =>
               t.instances_to_delete =
                   s.instances_to_delete \o
                   (IF faults' > faults THEN <<>>
                    ELSE SetToSeq({r.id : r \in Matches(spec[s.i].name)}))
         /\ s.pc \in {"del_describe_alarms", "del_delete_alarms",
                      "del_terminate", "del_wait_terminated"} =>
               t.instances_to_delete = s.instances_to_delete
         /\ s.pc = "del_terminate" =>
               t.calls[Len(t.calls)] =
                   [op |-> "terminate_instances", arg |-> s.instances_to_delete]
      ]_vars

\* a delete_resources call that terminated instances although its manifest
\* is empty, or left alone an instance its manifest lists
C22_Witness ==
    \E m \in Managers :
        LET s == mgr[m] IN
        /\ Finished(m)
        /\ Issued(s, "terminate_instances", s.instances_to_delete)
        /\ SeqToSet(s.instances_to_delete) # SeqToSet(s.created_resources.instances)
        /\ s.created_resources.instances # <<>>

\* C24: the evaluation-period count of the alarm is the integer quotient of
\* evaluation_minutes by 5, rounded down, never to the nearest: the periods
\* cover at most the declared minutes and one more period would exceed
\* them; 15 gives 3, 10 gives 2, 7 gives 1.
C24_PeriodsRoundedDown ==
    \A a \in cw_alarms :
        LET minutes == spec[1].idle_shutdown.evaluation_minutes
            periods == a.EvaluationPeriods
        IN
        /\ periods * PeriodMinutes <= minutes
        /\ minutes < (periods + 1) * PeriodMinutes
        /\ minutes = 15 => periods = 3
        /\ minutes = 10 => periods = 2
        /\ minutes = 7 => periods = 1

\* the alarm of a policy of 8 minutes, which rounding to the nearest period
\* would give two periods, was requested with one
C24_Witness ==
    /\ spec[1].idle_shutdown.evaluation_minutes = 8
    /\ \E a \in cw_alarms : a.EvaluationPeriods = 1

\* the positions of the parts of a script that start with a text
Positions(script, text) == {k \in 1..Len(script) : script[k].text = text}

\* C25: the assembled bootstrap script starts with the header and ends with
\* the completion banner; the mount stanza is strictly before the user-script
\* marker, which is strictly before the mount-verification marker; the mount
\* stanza and the verification stanza are present exactly when a declared
\* volume carries a mount_point, the user section exactly when a bootstrap
\* descriptor is declared.
C25_SectionsInOrder ==
    \A r \in ec2_instances :
        LET script == r.UserData
            instance_spec == spec[1]
            mounts == \E k \in 1..Len(GetVolumes(instance_spec)) :
                          "mount_point" \in DOMAIN GetVolumes(instance_spec)[k]
            mount == Positions(script, MountMarker)
            user == Positions(script, UserMarker)
            verification == Positions(script, VerificationMarker)
        IN
        /\ Positions(script, HeaderMarker) = {1}
        /\ Positions(script, BannerMarker) = {Len(script)}
        /\ (mount # {}) <=> mounts
        /\ (verification # {}) <=> mounts
        /\ (user # {}) <=> ("user_data" \in DOMAIN instance_spec)
        /\ Cardinality(mount) <= 1
        /\ Cardinality(user) <= 1
        /\ Cardinality(verification) <= 1
        /\ \A a \in mount : \A b \in user \cup verification : 1 < a /\ a < b
        /\ \A b \in user :
              /\ 1 < b
              /\ script[b + 1].text = "script"
              /\ \A c \in verification : b + 1 < c
        /\ \A c \in verification :
              /\ 1 < c
              /\ \A k \in c..Len(script) :
                    script[k].text \notin {HeaderMarker, MountMarker,
                                           UserMarker, "script"}

\* a script with all three optional sections was assembled
C25_Witness ==
    \E r \in ec2_instances :
        /\ Positions(r.UserData, MountMarker) # {}
        /\ Positions(r.UserData, UserMarker) # {}
        /\ Positions(r.UserData, VerificationMarker) # {}
        /\ Len(VolumesWithMounts(spec[1])) < Len(GetVolumes(spec[1]))

\* the call of the validation is over
Validated(s) == s.pc = "done"

\* the required fields an instance lacks
Lacking(instance) == {"name", "instance_type", "ami_id"} \ DOMAIN instance

\* the optional sections validation looks at
OptionalSections == {"user_data", "idle_shutdown", "iam_role", "volumes"}

\* the document cut after its first n instances
Prefix(document, n) ==
    [document EXCEPT !.instances = SubSeq(document.instances, 1, n)]

\* C26: validation rejects a specification without an instances field, and
\* rejects every instance that lacks one of name, instance_type or ami_id
\* with an error that names a field the instance lacks and its index (the
\* error of the call when nothing before the instance is rejected); a
\* specification whose instances carry the three fields and no optional
\* section passes.
C26_RequiredFields ==
    \A m \in Managers :
        LET s == mgr[m] IN
        Validated(s) =>
            /\ "instances" \notin DOMAIN spec =>
                  /\ s.outcome = "raised"
                  /\ s.error.type = "ValueError"
                  /\ s.error.field = "instances"
            /\ "instances" \in DOMAIN spec =>
                  \A k \in 1..Len(spec.instances) :
                      LET instance == spec.instances[k]
                          raised == ValidateInstance(instance, k - 1)
                      IN
                      Lacking(instance) # {} =>
                          /\ s.outcome = "raised"
                          /\ s.error.type = "ValueError"
                          /\ raised.message = "Missing required field in instance"
                          /\ raised.field \in Lacking(instance)
                          /\ raised.instance = k - 1
                          /\ ValidateSpecification(Prefix(spec, k - 1)) = Valid
                             => s.error = raised
            /\ /\ DOMAIN spec = {"instances"}
               /\ \A k \in 1..Len(spec.instances) :
                     /\ Lacking(spec.instances[k]) = {}
                     /\ DOMAIN spec.instances[k] \cap OptionalSections = {}
               => s.outcome = "returned"

\* the second instance of a specification lacks its name and the error names
\* index 1 and the field
C26_Witness ==
    \E m \in Managers :
        /\ Validated(mgr[m])
        /\ "instances" \in DOMAIN spec
        /\ Len(spec.instances) = 2
        /\ Lacking(spec.instances[1]) = {}
        /\ mgr[m].error.type = "ValueError"
        /\ mgr[m].error.field = "name"
        /\ mgr[m].error.instance = 1

\* C27: a bootstrap descriptor (user_data) is accepted by validation exactly
\* when it is an object containing exactly one of script_path and
\* inline_script: the check of an instance that declares one raises no
\* user_data error in that case only, and the call returns for an instance
\* with nothing else to reject in that case only.
C27_UserDataExactlyOne ==
    \A m \in Managers :
        LET s == mgr[m] IN
        Validated(s) /\ "instances" \in DOMAIN spec =>
            \A k \in 1..Len(spec.instances) :
                LET instance == spec.instances[k] IN
                "user_data" \in DOMAIN instance =>
                    LET user_data == instance.user_data
                        acceptable ==
                            /\ IsDict(user_data)
                            /\ Cardinality(DOMAIN user_data.dict \cap
                                   {"script_path", "inline_script"}) = 1
                        raised == ValidateUserData(instance, k - 1)
                    IN
                    /\ acceptable <=> raised = Valid
                    /\ ~acceptable =>
                          /\ s.outcome = "raised"
                          /\ raised.field = "user_data"
                          /\ raised.instance = k - 1
                    /\ /\ ~acceptable
                       /\ Lacking(instance) = {}
                       /\ ValidateSpecification(Prefix(spec, k - 1)) = Valid
                       => s.error = raised
                    /\ /\ acceptable
                       /\ Len(spec.instances) = 1
                       /\ DOMAIN spec = {"instances"}
                       /\ DOMAIN instance =
                              {"name", "instance_type", "ami_id", "user_data"}
                       => s.outcome = "returned"

\* a descriptor with both sources was rejected
C27_Witness ==
    \E m \in Managers :
        /\ Validated(mgr[m])
        /\ mgr[m].error.type = "ValueError"
        /\ mgr[m].error.message = "Cannot specify both script_path and inline_script"
        /\ DOMAIN spec.instances[1].user_data.dict = {"script_path", "inline_script"}

\* a YAML integer (not a boolean) greater than zero
PositiveInteger(v) == "int" \in DOMAIN v /\ v.int > 0

\* a YAML number (integer or float; not a boolean, not .nan) in [lo, hi]
NumberIn(v, lo, hi) ==
    \/ "int" \in DOMAIN v /\ lo <= v.int /\ v.int <= hi
    \/ "float" \in DOMAIN v /\ 10 * lo <= v.float /\ v.float <= 10 * hi

\* C28: an idle_shutdown policy is accepted by validation exactly when
\* cpu_threshold and evaluation_minutes are both present, cpu_threshold is a
\* number in [0,100], evaluation_minutes is a positive integer, and action,
\* if given, is stop or terminate.
C28_IdleShutdownAccepted ==
    \A m \in Managers :
        LET s == mgr[m] IN
        Validated(s) /\ "instances" \in DOMAIN spec =>
            \A k \in 1..Len(spec.instances) :
                LET instance == spec.instances[k] IN
                "idle_shutdown" \in DOMAIN instance =>
                    LET idle_config == instance.idle_shutdown
                        acceptable ==
                            /\ IsDict(idle_config)
                            /\ {"cpu_threshold", "evaluation_minutes"}
                                   \subseteq DOMAIN idle_config.dict
                            /\ NumberIn(idle_config.dict.cpu_threshold, 0, 100)
                            /\ PositiveInteger(idle_config.dict.evaluation_minutes)
                            /\ "action" \in DOMAIN idle_config.dict =>
                                  /\ IsStr(idle_config.dict.action)
                                  /\ idle_config.dict.action.str
                                         \in {"stop", "terminate"}
                    IN
                    /\ acceptable <=> ValidateIdleShutdown(instance, k - 1) = Valid
                    /\ ~acceptable => s.outcome = "raised"

\* a text that is an absolute path outside the reserved directories
SafeAbsolutePath(v) ==
    /\ IsStr(v)
    /\ StartsWith(v.str, <<"/">>)
    /\ v.str \notin DangerousPaths

\* C29: a volume declaration is rejected by validation when its size is
\* missing or not a positive integer, its type or filesystem is outside the
\* allowed enumeration, its device is not under /dev/, or its mount_point is
\* not an absolute path or is a reserved directory; the error names the
\* instance index and the volume index.
C29_VolumeRejected ==
    \A m \in Managers :
        LET s == mgr[m] IN
        Validated(s) /\ "instances" \in DOMAIN spec =>
            \A k \in 1..Len(spec.instances) :
                LET instance == spec.instances[k] IN
                "volumes" \in DOMAIN instance =>
                    \A j \in 1..Len(instance.volumes) :
                        LET volume == instance.volumes[j]
                            given(field) == field \in DOMAIN volume
                            rejectable ==
                                \/ ~given("size")
                                \/ ~PositiveInteger(volume.size)
                                \/ /\ given("type")
                                   /\ NotIn(volume.type, ValidTypes)
                                \/ /\ given("filesystem")
                                   /\ NotIn(volume.filesystem, SupportedFilesystems)
                                \/ /\ given("device")
                                   /\ ~(/\ IsStr(volume.device)
                                        /\ StartsWith(volume.device.str, DevPrefix))
                                \/ /\ given("mount_point")
                                   /\ ~SafeAbsolutePath(volume.mount_point)
                            raised == ValidateVolumeSpec(volume, k - 1, j - 1)
                        IN
                        rejectable =>
                            /\ s.outcome = "raised"
                            /\ raised.type = "ValueError"
                            /\ raised.instance = k - 1
                            /\ raised.volume = j - 1

\* the place of a check in the claimed order: the instance index, the section
\* (1 required fields, 2 user_data, 3 idle_shutdown, 4 iam_role, 5 volumes)
\* and the volume index (-1 outside the volumes)
SectionOf(field) ==
    IF field \in {"name", "instance_type", "ami_id"} THEN 1
    ELSE IF field = "user_data" THEN 2
    ELSE IF field \in {"idle_shutdown", "cpu_threshold", "evaluation_minutes",
                       "action"} THEN 3
    ELSE IF field = "iam_role" THEN 4
    ELSE 5

\* the places whose check, taken alone, rejects the document
Violations(document) ==
    LET instances == document.instances IN
    { <<k - 1, 1, 0 - 1>> : k \in {x \in 1..Len(instances) :
          ValidateRequired(instances[x], x - 1) # Valid} } \cup
    { <<k - 1, 2, 0 - 1>> : k \in {x \in 1..Len(instances) :
          ValidateUserData(instances[x], x - 1) # Valid} } \cup
    { <<k - 1, 3, 0 - 1>> : k \in {x \in 1..Len(instances) :
          ValidateIdleShutdown(instances[x], x - 1) # Valid} } \cup
    { <<k - 1, 4, 0 - 1>> : k \in {x \in 1..Len(instances) :
          ValidateIamRole(instances[x], x - 1) # Valid} } \cup
    UNION { { <<k - 1, 5, j - 1>> :
                j \in {y \in 1..Len(GetVolumes(instances[k])) :
                    ValidateVolumeSpec(instances[k].volumes[y], k - 1, y - 1)
                        # Valid} } :
            k \in 1..Len(instances) }

\* place p comes before place q
Before(p, q) ==
    \/ p[1] < q[1]
    \/ p[1] = q[1] /\ p[2] < q[2]
    \/ p[1] = q[1] /\ p[2] = q[2] /\ p[3] < q[3]

\* C30: validation stops at the first violation and reports only that one:
\* instances are checked in index order and, within an instance, in the
\* order required fields, user_data, idle_shutdown, iam_role, volumes (in
\* declaration order).  Once the document's own fields (instances, profile)
\* have passed, the call returns when no check rejects, and otherwise raises
\* the error of the place that comes before every other rejecting place.
C30_FirstViolationReported ==
    \A m \in Managers :
        LET s == mgr[m] IN
        /\ Validated(s)
        /\ "instances" \in DOMAIN spec
        /\ "profile" \in DOMAIN spec => IsStr(spec.profile)
        => LET violations == Violations(spec)
               reported == <<s.error.instance, SectionOf(s.error.field),
                             s.error.volume>>
           IN
           /\ violations = {} <=> s.outcome = "returned"
           /\ violations # {} =>
                 /\ s.outcome = "raised"
                 /\ s.error.type = "ValueError"
                 /\ reported \in violations
                 /\ \A q \in violations \ {reported} : Before(reported, q)

\* a specification with violations in three sections of its instance and in
\* two of its volumes: the idle_shutdown error is the one reported
C30_Witness ==
    \E m \in Managers :
        /\ Validated(mgr[m])
        /\ "instances" \in DOMAIN spec
        /\ Cardinality(Violations(spec)) >= 4
        /\ mgr[m].error.type = "ValueError"
        /\ mgr[m].error.field = "idle_shutdown"
        /\ mgr[m].error.instance = 0

\* C23: a specification that fails validation causes no gateway call at all:
\* in the create and delete flows load_specification runs to completion
\* before provision_resources or delete_resources is entered, and validation
\* itself issues no remote call and changes neither the specification nor
\* the manifest.  As long as the file is not loaded, and for ever once it is
\* rejected, no call is issued and neither method is entered; a method is
\* entered only on an accepted file; the step that validates leaves the
\* gateway, the file and the manifest as they are and nothing follows a
\* rejection.
C23_NoCallOnInvalid ==
    /\ [](\A m \in Managers :
            LET s == mgr[m] IN
            /\ s.pc = "main" \/ s.error.type = "ValueError" =>
                  /\ s.calls = <<>>
                  /\ s.runs = 0
                  /\ s.created_resources = EmptyResources
                  /\ spec = <<>>
            /\ s.error.type = "ValueError" <=>
                  s.pc = "done" /\ ValidateSpecification(s.args.spec) # Valid
            /\ s.runs > 0 =>
                  /\ ValidateSpecification(s.args.spec) = Valid
                  /\ spec = Declared(s.args.spec))
    /\ [][\A m \in Managers :
            LET s == mgr[m]
                t == mgr'[m]
            IN
            /\ s.error.type # "ValueError"
            /\ t.args = s.args
            /\ s.pc = "main" =>
                  /\ UNCHANGED <<ec2_instances, ec2_volumes, cw_alarms, faults>>
                  /\ t.created_resources = s.created_resources
                  /\ t.calls = s.calls]_vars

\* the create action on a file whose second instance is rejected ended with
\* the ValueError while an instance of the first name is live
C23_Witness ==
    \E m \in Managers :
        /\ mgr[m].pc = "done"
        /\ mgr[m].args.action = "create"
        /\ mgr[m].error.type = "ValueError"
        /\ mgr[m].error.instance = 1
        /\ ec2_instances # {}

\* the attach call for a volume this call created went through: the volume
\* is in use when the rollback takes it up
Attached(s, v) ==
    /\ Issued(s, "attach_volume", v)
    /\ ~(s.exc.op = "attach_volume" /\ v = s.made.volumes[Len(s.made.volumes)])

\* C31: if provision_resources raises after having created resources and no
\* gateway call fails during the rollback, then a terminate call was issued
\* for every instance id the run created, a delete call for every volume id
\* it created (straight after a detach and a wait when the volume was in
\* use) and a delete call for every alarm name it created.
C31_RollbackComplete ==
    \A m \in Managers :
        LET s == mgr[m] IN
        (/\ Finished(m)
         /\ s.outcome = "raised"
         /\ s.made # EmptyResources
         /\ s.rollback_failures = 0) =>
            /\ s.rollback_calls = 1
            /\ \A id \in SeqToSet(s.made.instances) : TerminateIssuedFor(s, id)
            /\ \A v \in SeqToSet(s.made.volumes) :
                  \E n \in 1..Len(s.calls) :
                      /\ IsCall(s, n, "delete_volume", v)
                      /\ Attached(s, v) =>
                            /\ IsCall(s, n - 1, "wait_volume_available", v)
                            /\ IsCall(s, n - 2, "detach_volume", v)
            /\ \A a \in SeqToSet(s.made.alarms) : Issued(s, "delete_alarms", a)

\* a call that created an instance, a volume it attached and an alarm was
\* rolled back without a failure
C31_Witness ==
    \E m \in Managers :
        LET s == mgr[m] IN
        /\ Finished(m) /\ s.outcome = "raised"
        /\ s.rollback_calls = 1 /\ s.rollback_failures = 0
        /\ s.made.instances # <<>>
        /\ \E v \in SeqToSet(s.made.volumes) :
              Attached(s, v) /\ Issued(s, "delete_volume", v)
        /\ \E a \in SeqToSet(s.made.alarms) : Issued(s, "delete_alarms", a)

\* C32: rollback_resources issues delete-alarm, detach-volume, delete-volume
\* and terminate calls only for identifiers present in the manifest: it
\* never touches a pre-existing resource (in the first call of a manager
\* every alarm it deletes is one the call created, none that was in place
\* before), in particular not an alarm whose creation was skipped because it
\* existed, nor an instance found by the idempotency probe or live before
\* the program started.
C32_RollbackOnlyManifest ==
    \A m \in Managers :
        LET s == mgr[m] IN
        \A n \in 1..Len(s.calls) :
            LET op == s.calls[n].op
                x == s.calls[n].arg
            IN
            /\ op = "delete_alarms" =>
                  /\ x \in SeqToSet(s.manifest_at_rollback.alarms)
                  /\ s.runs = 1 => x \in SeqToSet(s.made.alarms)
            /\ op \in {"detach_volume", "delete_volume"} =>
                  x \in SeqToSet(s.manifest_at_rollback.volumes)
            /\ op = "terminate_instances" =>
                  /\ x = s.manifest_at_rollback.instances
                  /\ \A id \in SeqToSet(x) :
                        id > 0 /\ id \notin SeqToSet(s.existing)

\* C33: a failure while fetching connection info, after every declared
\* instance, volume and alarm was created, also triggers the rollback of all
\* resources the run created (rollback_resources is called once, on a
\* manifest that holds them all), and the error is raised to the caller.
C33_ConnectionInfoFailureRollsBack ==
    \A m \in Managers :
        LET s == mgr[m] IN
        (/\ Finished(m)
         /\ Caught(m)
         /\ s.exc.op = "describe_instances"
         /\ AllCreated(s)) =>
            /\ s.rollback_calls = 1
            /\ SeqToSet(s.made.instances) \subseteq
                  SeqToSet(s.manifest_at_rollback.instances)
            /\ SeqToSet(s.made.volumes) \subseteq
                  SeqToSet(s.manifest_at_rollback.volumes)
            /\ SeqToSet(s.made.alarms) \subseteq
                  SeqToSet(s.manifest_at_rollback.alarms)
            /\ s.outcome = "raised"
            /\ s.error = s.exc


\* the gateway calls rollback_resources can issue
RollbackOps == {"delete_alarms", "describe_volumes", "detach_volume",
                "delete_volume", "terminate_instances"}

\* the first create step of a call on a fresh manager failed: the script file
\* of the first instance could not be read, or the first run_instances failed
FailedBeforeAnyResource(s) ==
    /\ s.runs = 1
    /\ s.manifest_at_start = EmptyResources
    /\ s.exc.op \in {"prepare_user_data", "run_instances"}
    /\ s.i = 1

\* C34: when provisioning on a fresh manager fails before any resource was
\* created (the bootstrap script file of the first instance cannot be read, or
\* the first create-instance call fails), the rollback issues no gateway call
\* at all: no delete-alarm, no describe-, detach- or delete-volume, no
\* terminate call and no waiter; the call is over with the error raised.
C34_EmptyRollbackIssuesNoCall ==
    \A m \in Managers :
        LET s == mgr[m] IN
        FailedBeforeAnyResource(s) =>
            /\ s.rollback_calls = 1
            /\ s.manifest_at_rollback = EmptyResources
            /\ \A n \in 1..Len(s.calls) :
                  s.calls[n].op \in {"describe_instances", "run_instances"}
            /\ \A n \in 1..Len(s.calls) : s.calls[n].op \notin RollbackOps
            /\ s.rollback_failures = 0
            /\ Finished(m)
            /\ s.error = s.exc

\* the script file of the first instance of a fresh manager could not be read
C34_Witness ==
    \E m \in Managers :
        /\ FailedBeforeAnyResource(mgr[m])
        /\ mgr[m].exc = FileNotFoundError
        /\ Finished(m)
        /\ \A n \in 1..Len(mgr[m].calls) : mgr[m].calls[n].op = "describe_instances"


\* C35: for every idle_shutdown policy that passes validation, the
\* evaluation-period count of the created alarm (evaluation_minutes div 5) is
\* at least 1.
C35_AtLeastOnePeriod ==
    \A a \in cw_alarms :
        LET minutes == spec[1].idle_shutdown.evaluation_minutes
            instance ==
                [idle_shutdown |->
                    [dict |-> [cpu_threshold |-> [int |-> 10],
                               evaluation_minutes |-> [int |-> minutes]]]]
        IN
        ValidateIdleShutdown(instance, 0) = Valid => a.EvaluationPeriods >= 1


\* C36: delete_resources does not raise to its caller when a gateway call
\* fails: a failed lookup for one declared name does not stop the lookups for
\* the other names, a failed alarm description or deletion does not prevent
\* the terminate call for the discovered instances, and a failed terminate
\* call or termination wait ends the operation without an error.
C36_DeleteNeverRaises ==
    \A m \in Managers :
        LET s == mgr[m] IN
        Finished(m) =>
            /\ \A k \in 1..Len(spec) : Issued(s, "describe_instances", spec[k].name)
            /\ s.instances_to_delete # <<>> =>
                  Issued(s, "terminate_instances", s.instances_to_delete)
            /\ s.outcome = "returned"
            /\ s.error = NoError


\* C37: a declared iops value is passed to volume creation exactly when the
\* volume's effective type, that is the declared type or gp3 when no type is
\* declared, is gp3, io1 or io2; the effective type is the type of the request.
C37_IopsPassedForEffectiveType ==
    \A request \in ec2_volumes :
        LET volume_spec == spec[1].volumes[1]
            effective == IF "type" \in DOMAIN volume_spec
                         THEN volume_spec.type.str
                         ELSE "gp3"
        IN
        /\ request.VolumeType = [str |-> effective]
        /\ "Iops" \in DOMAIN request => /\ "iops" \in DOMAIN volume_spec
                                        /\ request.Iops = volume_spec.iops
        /\ "iops" \in DOMAIN volume_spec =>
              ("Iops" \in DOMAIN request <=> effective \in {"gp3", "io1", "io2"})


\* C38: get_user_data_logs returns the console lines from the first line
\* containing the Started marker through the first line from there on that
\* contains the Completed marker, both included, and nothing after it; when
\* no Completed marker follows it returns everything from the Started line to
\* the end; when the console output contains neither marker it returns the
\* 'no logs found' message.
C38_LogsFromStartedToCompleted ==
    \A m \in Managers : \A r \in ec2_instances :
        LET s == mgr[m]
            lines == r.console
            starts == {k \in 1..Len(lines) : Contains(lines[k], StartedPhrase)}
            first == CHOOSE k \in starts : \A x \in starts : k <= x
            ends == {k \in first..Len(lines) : Contains(lines[k], CompletedPhrase)}
            last == CHOOSE k \in ends : \A x \in ends : k <= x
            neither == \A k \in 1..Len(lines) :
                           /\ ~Contains(lines[k], StartedPhrase)
                           /\ ~Contains(lines[k], CompletedPhrase)
        IN
        s.outcome = "returned" =>
            /\ starts # {} /\ ends # {} => s.logs = SubSeq(lines, first, last)
            /\ starts # {} /\ ends = {} => s.logs = SubSeq(lines, first, Len(lines))
            /\ neither => s.logs = NoLogsFound

====
